---- MODULE Spec2Model ----
(***************************************************************************)
(* A model of the semantic matching engine of academiamatch:               *)
(*   - text normalisation (preprocess_text in matching.py, load_data.py    *)
(*     and compute_all_matches.py),                                        *)
(*   - the profile text builder (build_text_for_matching),                 *)
(*   - the similarity ranker (find_matches, get_all_matches) over the      *)
(*     Researcher table, with the embedding provider as an opaque source   *)
(*     of similarities.                                                    *)
(*                                                                         *)
(* Text is a sequence of one-character strings.  A missing value (Python   *)
(* None, pandas NaN) is a one-element sequence holding a marker that is    *)
(* not a character.  A similarity is an integer in units of 0.00001.       *)
(***************************************************************************)
EXTENDS Integers, Sequences, FiniteSets, TLC

VARIABLES
    researchers,    \* the Researcher table, in id order (row i has id i)
    model_loaded,   \* matching._model is not None
    encoded,        \* the batches handed to model.encode by the last call
    call,           \* the last engine call: [op, target, top_n, got_model]
    target_text,    \* find_matches: target_text
    candidates,     \* find_matches: candidates (ids, in query order)
    similarities,   \* find_matches: similarities, aligned with candidates
    top_indices,    \* find_matches: top_indices
    matches,        \* the list the last call returned
    text,           \* preprocess_text: the argument
    variant,        \* which module's preprocess_text is applied
    normalized,     \* preprocess_text(text)
    renormalized,   \* preprocess_text(preprocess_text(text))
    kw_module,      \* which module's find_relevant_keywords is applied
    kw_top_n,       \* find_relevant_keywords: top_n
    keywords,       \* the list find_relevant_keywords returned
    swapped_keywords, \* the list it returned for the exchanged pair
    match_table,    \* the committed rows of the Match table, in insertion order
    session,        \* the Match rows added to db.session and not yet committed
    idx,            \* compute_and_store_matches: researchers gone through
    matches_stored, \* compute_and_store_matches: matches_stored
    errors,         \* compute_and_store_matches: errors
    provider,       \* the similarities the embedding provider gives, by text
    escaped,        \* the last find_matches call ended in the provider's exception
    bulk_outcome,   \* how compute_and_store_matches ended, "running" until then
    processed,      \* the source profiles the batch step has marked as matched
    result,         \* the progress the last batch step returned
    page,           \* the page /admin/compute-matches answered with last
    in_order,       \* the step was only called directly, with batch size
                    \* .size and batch_number 1, 2, ..., .upto in order
    email_log,      \* the rows of the EmailLog table, in insertion order
    request,        \* the last request or call that names a profile by its
                    \* email or works on the stored tables: [op, args, outcome]
    admin_sessions, \* session['admin_logged_in'] of each client: in the
                    \* session cookie its browser holds (.jar) and in the
                    \* copy of an earlier cookie it kept (.kept)
    renders,        \* per session, the match lists rendered since its last
                    \* successful login
    threads,        \* get_model: where each request thread is, and the
                    \* handle it got
    model_handle,   \* matching._model: 0 for None, else the number of the
                    \* construction that made the object
    constructions,  \* how many times SentenceTransformer(...) was constructed
    pc              \* position of the current scenario

vars == <<researchers, model_loaded, encoded, call, target_text,
          candidates, similarities, top_indices, matches, text, variant,
          normalized, renormalized, kw_module, kw_top_n, keywords,
          swapped_keywords, match_table, session, idx, matches_stored, errors,
          provider, escaped, bulk_outcome, processed, result, page, in_order,
          email_log, request, admin_sessions, renders, threads, model_handle,
          constructions, pc>>

engine_vars == <<researchers, model_loaded, encoded, call,
                 target_text, candidates, similarities, top_indices, matches>>

norm_vars == <<text, variant, normalized, renormalized>>

keyword_vars == <<kw_module, kw_top_n, keywords, swapped_keywords>>

\* the variables the engine and the normaliser leave alone
bulk_vars == <<match_table, session, idx, matches_stored, errors, provider,
               escaped, bulk_outcome>>

batch_vars == <<processed, result, page, in_order>>

store_vars == <<email_log, request>>

login_vars == <<admin_sessions, renders>>

model_vars == <<threads, model_handle, constructions>>

web_vars == <<store_vars, login_vars, model_vars>>

rest_vars == <<keyword_vars, bulk_vars, batch_vars, web_vars>>

-----------------------------------------------------------------------------
(* Bounds of the model.                                                    *)

\* the longest input of preprocess_text, in fragments
MaxFragments == 3

\* the most rows of the Researcher table
MaxResearchers == 3

\* the most phrases of a comma separated attribute
MaxPhrases == 2

\* the most internal rows of a bulk run
MaxInternals == 6

\* the most source profiles of a run of batch steps, the 23 of the
\* specification's scenario apart
MaxProfiles == 12

-----------------------------------------------------------------------------
(* Characters and strings.                                                 *)

None == <<"None">>
NaN == <<"NaN">>

Missing(t) == t = None \/ t = NaN

UpperCase == <<"A","B","C","D","E","F","G","H","I","J","K","L","M",
               "N","O","P","Q","R","S","T","U","V","W","X","Y","Z">>
LowerCase == <<"a","b","c","d","e","f","g","h","i","j","k","l","m",
               "n","o","p","q","r","s","t","u","v","w","x","y","z">>
Digits == {"0","1","2","3","4","5","6","7","8","9"}

Range(s) == {s[i] : i \in 1..Len(s)}

\* str.isspace / the regular expression class \s
IsSpace(c) == c \in {" ", "\t", "\n", "\r"}

\* the regular expression class [a-z0-9]
IsAlnum(c) == c \in Range(LowerCase) \cup Digits

\* one character of str.lower()
LowerChar(c) ==
    IF c \in Range(UpperCase)
    THEN LowerCase[CHOOSE i \in 1..Len(UpperCase) : UpperCase[i] = c]
    ELSE c

\* str.lower()
Lower(s) == [i \in 1..Len(s) |-> LowerChar(s[i])]

\* re.sub(r"[^a-z0-9\s]", " ", s)
ReSubSpecial(s) ==
    [i \in 1..Len(s) |-> IF IsAlnum(s[i]) \/ IsSpace(s[i]) THEN s[i] ELSE " "]

RECURSIVE SplitFrom(_, _, _, _)
SplitFrom(s, i, cur, acc) ==
    IF i > Len(s)
    THEN IF cur = <<>> THEN acc ELSE Append(acc, cur)
    ELSE IF IsSpace(s[i])
         THEN SplitFrom(s, i + 1, <<>>, IF cur = <<>> THEN acc ELSE Append(acc, cur))
         ELSE SplitFrom(s, i + 1, Append(cur, s[i]), acc)

\* str.split() with no argument: the maximal runs of non-whitespace
Split(s) == SplitFrom(s, 1, <<>>, <<>>)

RECURSIVE Join(_, _)
\* sep.join(parts)
Join(sep, parts) ==
    IF parts = <<>> THEN <<>>
    ELSE IF Len(parts) = 1 THEN parts[1]
    ELSE parts[1] \o sep \o Join(sep, Tail(parts))

\* str(text) of a value that is a string or NaN
Str(t) == IF t = NaN THEN <<"n","a","n">> ELSE t

-----------------------------------------------------------------------------
(* Text normalisation.                                                     *)

STOPWORDS == {
    <<"i">>, <<"m","e">>, <<"m","y">>, <<"m","y","s","e","l","f">>, <<"w","e">>,
    <<"o","u","r">>, <<"o","u","r","s">>, <<"o","u","r","s","e","l","v","e","s">>,
    <<"y","o","u">>, <<"y","o","u","'","r","e">>, <<"y","o","u","'","v","e">>,
    <<"y","o","u","'","l","l">>, <<"y","o","u","'","d">>, <<"y","o","u","r">>,
    <<"y","o","u","r","s">>, <<"y","o","u","r","s","e","l","f">>,
    <<"y","o","u","r","s","e","l","v","e","s">>, <<"h","e">>, <<"h","i","m">>, <<"h","i","s">>,
    <<"h","i","m","s","e","l","f">>, <<"s","h","e">>, <<"s","h","e","'","s">>, <<"h","e","r">>,
    <<"h","e","r","s">>, <<"h","e","r","s","e","l","f">>, <<"i","t">>, <<"i","t","'","s">>,
    <<"i","t","s">>, <<"i","t","s","e","l","f">>, <<"t","h","e","y">>, <<"t","h","e","m">>,
    <<"t","h","e","i","r">>, <<"t","h","e","i","r","s">>,
    <<"t","h","e","m","s","e","l","v","e","s">>, <<"w","h","a","t">>, <<"w","h","i","c","h">>,
    <<"w","h","o">>, <<"w","h","o","m">>, <<"t","h","i","s">>, <<"t","h","a","t">>,
    <<"t","h","a","t","'","l","l">>, <<"t","h","e","s","e">>, <<"t","h","o","s","e">>,
    <<"a","m">>, <<"i","s">>, <<"a","r","e">>, <<"w","a","s">>, <<"w","e","r","e">>,
    <<"b","e">>, <<"b","e","e","n">>, <<"b","e","i","n","g">>, <<"h","a","v","e">>,
    <<"h","a","s">>, <<"h","a","d">>, <<"h","a","v","i","n","g">>, <<"d","o">>,
    <<"d","o","e","s">>, <<"d","i","d">>, <<"d","o","i","n","g">>, <<"a">>, <<"a","n">>,
    <<"t","h","e">>, <<"a","n","d">>, <<"b","u","t">>, <<"i","f">>, <<"o","r">>,
    <<"b","e","c","a","u","s","e">>, <<"a","s">>, <<"u","n","t","i","l">>,
    <<"w","h","i","l","e">>, <<"o","f">>, <<"a","t">>, <<"b","y">>, <<"f","o","r">>,
    <<"w","i","t","h">>, <<"a","b","o","u","t">>, <<"a","g","a","i","n","s","t">>,
    <<"b","e","t","w","e","e","n">>, <<"i","n","t","o">>, <<"t","h","r","o","u","g","h">>,
    <<"d","u","r","i","n","g">>, <<"b","e","f","o","r","e">>, <<"a","f","t","e","r">>,
    <<"a","b","o","v","e">>, <<"b","e","l","o","w">>, <<"t","o">>, <<"f","r","o","m">>,
    <<"u","p">>, <<"d","o","w","n">>, <<"i","n">>, <<"o","u","t">>, <<"o","n">>,
    <<"o","f","f">>, <<"o","v","e","r">>, <<"u","n","d","e","r">>, <<"a","g","a","i","n">>,
    <<"f","u","r","t","h","e","r">>, <<"t","h","e","n">>, <<"o","n","c","e">>,
    <<"h","e","r","e">>, <<"t","h","e","r","e">>, <<"w","h","e","n">>, <<"w","h","e","r","e">>,
    <<"w","h","y">>, <<"h","o","w">>, <<"a","l","l">>, <<"b","o","t","h">>,
    <<"e","a","c","h">>, <<"f","e","w">>, <<"m","o","r","e">>, <<"m","o","s","t">>,
    <<"o","t","h","e","r">>, <<"s","o","m","e">>, <<"s","u","c","h">>, <<"n","o">>,
    <<"n","o","r">>, <<"n","o","t">>, <<"o","n","l","y">>, <<"o","w","n">>,
    <<"s","a","m","e">>, <<"s","o">>, <<"t","h","a","n">>, <<"t","o","o">>,
    <<"v","e","r","y">>, <<"s">>, <<"t">>, <<"c","a","n">>, <<"w","i","l","l">>,
    <<"j","u","s","t">>, <<"d","o","n">>, <<"d","o","n","'","t">>, <<"s","h","o","u","l","d">>,
    <<"s","h","o","u","l","d","'","v","e">>, <<"n","o","w">>, <<"d">>, <<"l","l">>, <<"m">>,
    <<"o">>, <<"r","e">>, <<"v","e">>, <<"y">>, <<"a","i","n">>, <<"a","r","e","n">>,
    <<"a","r","e","n","'","t">>, <<"c","o","u","l","d","n">>,
    <<"c","o","u","l","d","n","'","t">>, <<"d","i","d","n">>, <<"d","i","d","n","'","t">>,
    <<"d","o","e","s","n">>, <<"d","o","e","s","n","'","t">>, <<"h","a","d","n">>,
    <<"h","a","d","n","'","t">>, <<"h","a","s","n">>, <<"h","a","s","n","'","t">>,
    <<"h","a","v","e","n">>, <<"h","a","v","e","n","'","t">>, <<"i","s","n">>,
    <<"i","s","n","'","t">>, <<"m","a">>, <<"m","i","g","h","t","n">>,
    <<"m","i","g","h","t","n","'","t">>, <<"m","u","s","t","n">>,
    <<"m","u","s","t","n","'","t">>, <<"n","e","e","d","n">>, <<"n","e","e","d","n","'","t">>,
    <<"s","h","a","n">>, <<"s","h","a","n","'","t">>, <<"s","h","o","u","l","d","n">>,
    <<"s","h","o","u","l","d","n","'","t">>, <<"w","a","s","n">>, <<"w","a","s","n","'","t">>,
    <<"w","e","r","e","n">>, <<"w","e","r","e","n","'","t">>, <<"w","o","n">>,
    <<"w","o","n","'","t">>, <<"w","o","u","l","d","n">>, <<"w","o","u","l","d","n","'","t">>
}

\* a variant of matching_preprocess_text that collapses white space before it
\* replaces the special characters
preprocess_text_collapse_first(t) ==
    IF t = None \/ t = <<>>
    THEN <<>>
    ELSE ReSubSpecial(Join(<<" ">>, Split(Lower(Str(t)))))

\* matching.py: not text or text is None; NaN is truthy and is formatted
matching_preprocess_text(t) ==
    IF t = None \/ t = <<>>
    THEN <<>>
    ELSE Join(<<" ">>, Split(ReSubSpecial(Lower(Str(t)))))

\* load_data.py: pd.isna(text) or not text
load_data_preprocess_text(t) ==
    IF Missing(t) \/ t = <<>>
    THEN <<>>
    ELSE Join(<<" ">>, Split(ReSubSpecial(Lower(Str(t)))))

\* a variant of KeptTokens that forgets the stopword test
KeptTokensAnyWord(s) ==
    SelectSeq(Split(s), LAMBDA word : Len(word) > 2)

\* compute_all_matches.py: the tokens kept by the comprehension of line 40
KeptTokens(s) ==
    SelectSeq(Split(s), LAMBDA word : word \notin STOPWORDS /\ Len(word) > 2)

\* compute_all_matches.py: the stopword-filtering variant
compute_all_matches_preprocess_text(t) ==
    IF t = <<>> \/ Missing(t)
    THEN <<>>
    ELSE Join(<<" ">>, KeptTokens(ReSubSpecial(Lower(Str(t)))))

-----------------------------------------------------------------------------
(* The profile text builder.                                               *)

\* what str.join raises when an item is None
TypeError == <<"TypeError">>

\* Python's  x or ''  on a string or None
OrEmpty(x) == IF x = None \/ x = <<>> THEN <<>> ELSE x

\* ". ".join(parts)
JoinParts(parts) ==
    IF \E i \in 1..Len(parts) : parts[i] = None
    THEN TypeError
    ELSE Join(<<".", " ">>, parts)

\* the parts list of build_text_for_matching
Parts(researcher) ==
    IF researcher.researcher_type = "internal"
    THEN <<OrEmpty(researcher.primary_areas),
           OrEmpty(researcher.experience_summary),
           OrEmpty(researcher.sectors_interested)>>
    ELSE <<OrEmpty(researcher.expertise_sought),
           OrEmpty(researcher.organization_focus),
           OrEmpty(researcher.challenge_description)>>

\* a variant of build_text_for_matching that returns the joined parts as
\* they are
build_text_unnormalized(researcher) == JoinParts(Parts(researcher))

build_text_for_matching(researcher) ==
    LET combined == JoinParts(Parts(researcher))
    IN  IF combined = TypeError THEN TypeError
        ELSE matching_preprocess_text(combined)

-----------------------------------------------------------------------------
(* The Researcher table.                                                   *)

Types == {"internal", "external"}

\* the attribute texts the rows of the model carry
AreaTexts == {<<>>, <<"A","I">>, <<"m","l",".">>}

Email(i) == <<LowerCase[i], "@", "x">>

\* a row as load_all_data stores it: the attributes of the other population
\* are left unset
Row(i, type, areas) ==
    [id |-> i, email |-> Email(i), researcher_type |-> type,
     primary_areas |-> IF type = "internal" THEN areas ELSE None,
     experience_summary |-> IF type = "internal" THEN <<>> ELSE None,
     sectors_interested |-> IF type = "internal" THEN <<>> ELSE None,
     expertise_sought |-> IF type = "external" THEN areas ELSE None,
     organization_focus |-> IF type = "external" THEN <<>> ELSE None,
     challenge_description |-> IF type = "external" THEN <<>> ELSE None]

Tables ==
    UNION {{[i \in 1..n |-> Row(i, ty[i], ar[i])] :
                ty \in [1..n -> Types], ar \in [1..n -> AreaTexts]} :
           n \in 0..MaxResearchers}

\* Researcher.query.filter_by(researcher_type=type).all(), as ids
filter_by_type(type) ==
    LET ids == [i \in 1..Len(researchers) |-> i]
    IN  SelectSeq(ids, LAMBDA i : researchers[i].researcher_type = type)

-----------------------------------------------------------------------------
(* Keyword overlap: extract_keywords and find_relevant_keywords of         *)
(* matching.py, extract_clean_keywords and find_relevant_keywords of       *)
(* compute_all_matches.py.  Python leaves the order of list(a_set)         *)
(* unspecified, so a function that cuts such a list has several possible   *)
(* results: each operator below yields the set of them.                    *)

DigitSeq == <<"0","1","2","3","4","5","6","7","8","9">>

\* the characters of the model in code point order
Ascii == <<"\t", "\n", "\r", " ", "!", "\"", "'", "(", ")", ",", ".">>
         \o DigitSeq \o <<":", ";", "?">> \o UpperCase \o <<"[", "]">>
         \o LowerCase \o <<"{", "}">>

CodePoint(c) == CHOOSE i \in 1..Len(Ascii) : Ascii[i] = c

RECURSIVE LexLess(_, _)
\* s < t on str
LexLess(s, t) ==
    IF s = <<>> THEN t # <<>>
    ELSE IF t = <<>> THEN FALSE
    ELSE IF s[1] = t[1] THEN LexLess(Tail(s), Tail(t))
    ELSE CodePoint(s[1]) < CodePoint(t[1])

RECURSIVE Sorted(_)
\* sorted(items) of distinct strings
Sorted(S) ==
    IF S = {} THEN <<>>
    ELSE LET least == CHOOSE x \in S : \A y \in S \ {x} : LexLess(x, y)
         IN  <<least>> \o Sorted(S \ {least})

RECURSIVE SplitOnFrom(_, _, _, _, _)
SplitOnFrom(s, sep, i, cur, acc) ==
    IF i > Len(s) THEN Append(acc, cur)
    ELSE IF s[i] = sep
         THEN SplitOnFrom(s, sep, i + 1, <<>>, Append(acc, cur))
         ELSE SplitOnFrom(s, sep, i + 1, Append(cur, s[i]), acc)

\* str.split(sep): the pieces between separators, empty ones included
SplitOn(s, sep) == SplitOnFrom(s, sep, 1, <<>>, <<>>)

RECURSIVE LStrip(_, _)
LStrip(s, chars) ==
    IF s # <<>> /\ s[1] \in chars THEN LStrip(Tail(s), chars) ELSE s

RECURSIVE RStrip(_, _)
RStrip(s, chars) ==
    IF s # <<>> /\ s[Len(s)] \in chars
    THEN RStrip(SubSeq(s, 1, Len(s) - 1), chars)
    ELSE s

\* str.strip(chars)
StripChars(s, chars) == RStrip(LStrip(s, chars), chars)

Whitespace == {" ", "\t", "\n", "\r"}

\* str.strip()
Strip(s) == StripChars(s, Whitespace)

\* a variant of extract_keywords that keeps keywords of every length
extract_keywords_any_length(t) ==
    IF t = <<>> THEN {}
    ELSE LET pieces == SplitOn(t, ",")
             cleaned == {Lower(Strip(pieces[i])) : i \in 1..Len(pieces)}
         IN  {k \in cleaned : k # <<>>}

extract_keywords(t) ==
    IF t = <<>> THEN {}
    ELSE LET pieces == SplitOn(t, ",")
             cleaned == {Lower(Strip(pieces[i])) : i \in 1..Len(pieces)}
         IN  {k \in cleaned : k # <<>> /\ Len(k) > 2}

\* len(a_list[:n]) for a list of len items
SliceLen(len, n) ==
    IF n >= 0 THEN (IF n <= len THEN n ELSE len)
    ELSE (IF len + n >= 0 THEN len + n ELSE 0)

SubsetsOfSize(S, k) == {T \in SUBSET S : Cardinality(T) = k}

RECURSIVE HeadSets(_, _)
\* the sets the first k items of list(parts[1]) + list(parts[2]) + ... can
\* form, each list in an unspecified order
HeadSets(parts, k) ==
    IF parts = <<>> \/ k <= 0 THEN {{}}
    ELSE IF k >= Cardinality(parts[1])
         THEN {parts[1] \cup T :
                 T \in HeadSets(Tail(parts), k - Cardinality(parts[1]))}
         ELSE SubsetsOfSize(parts[1], k)

\* the characters word.strip('.,;:!?()[]{}"\'') removes
Punctuation == {".", ",", ";", ":", "!", "?", "(", ")", "[", "]", "{", "}",
                "\"", "'"}

\* the words the full-text fallback of find_relevant_keywords passes over
FallbackStopwords ==
    {<<"t","h","e","i","r">>, <<"t","h","e","r","e">>, <<"t","h","e","s","e">>,
     <<"t","h","o","s","e">>, <<"w","o","u","l","d">>, <<"c","o","u","l","d">>,
     <<"s","h","o","u","l","d">>}

\* the important words of one full text
ImportantWords(full_text) ==
    LET words == Split(Lower(full_text))
        cleaned == {StripChars(words[i], Punctuation) : i \in 1..Len(words)}
    IN  {w \in cleaned : Len(w) > 4 /\ w \notin FallbackStopwords}

\* a + ' ' + b + ' ' + c
SpaceJoined(a, b, c) == a \o <<" ">> \o b \o <<" ">> \o c

\* the branch of find_relevant_keywords taken when exact_matches is not
\* empty, without the final cut  result[:top_n]
ExactBranchUncut(exact_matches, remaining_internal, remaining_external, top_n) ==
    LET room == SliceLen(Cardinality(remaining_internal)
                           + Cardinality(remaining_external),
                         top_n - Cardinality(exact_matches))
    IN  {exact_matches \cup added :
           added \in HeadSets(<<remaining_internal, remaining_external>>, room)}

\* the branch of find_relevant_keywords taken when exact_matches is not
\* empty: the sets result[:top_n] can hold
ExactBranch(exact_matches, remaining_internal, remaining_external, top_n) ==
    LET room == SliceLen(Cardinality(remaining_internal)
                           + Cardinality(remaining_external),
                         top_n - Cardinality(exact_matches))
    IN  UNION {HeadSets(<<exact_matches, added \cap remaining_internal,
                          added \cap remaining_external>>,
                        SliceLen(Cardinality(exact_matches) + room, top_n)) :
                 added \in HeadSets(<<remaining_internal, remaining_external>>,
                                    room)}

\* matching.find_relevant_keywords: the lists it can return
find_relevant_keywords(internal_researcher, external_researcher, top_n) ==
    LET internal_keywords ==
            extract_keywords(OrEmpty(internal_researcher.primary_areas))
        external_keywords ==
            extract_keywords(OrEmpty(external_researcher.expertise_sought))
            \cup extract_keywords(OrEmpty(external_researcher.organization_focus))
        exact_matches == internal_keywords \cap external_keywords
        union == internal_keywords \cup external_keywords
        internal_text ==
            SpaceJoined(OrEmpty(internal_researcher.primary_areas),
                        OrEmpty(internal_researcher.experience_summary),
                        OrEmpty(internal_researcher.sectors_interested))
        external_text ==
            SpaceJoined(OrEmpty(external_researcher.expertise_sought),
                        OrEmpty(external_researcher.organization_focus),
                        OrEmpty(external_researcher.challenge_description))
        all_keywords ==
            IF union # {} THEN union
            ELSE ImportantWords(internal_text) \cup ImportantWords(external_text)
        kept ==
            IF exact_matches # {}
            THEN ExactBranch(exact_matches, internal_keywords \ exact_matches,
                             external_keywords \ exact_matches, top_n)
            ELSE HeadSets(<<all_keywords>>,
                          SliceLen(Cardinality(all_keywords), top_n))
    IN  {Sorted(k) : k \in kept}

\* which branch of matching.find_relevant_keywords a pair takes
KeywordPath(internal_researcher, external_researcher) ==
    LET internal_keywords ==
            extract_keywords(OrEmpty(internal_researcher.primary_areas))
        external_keywords ==
            extract_keywords(OrEmpty(external_researcher.expertise_sought))
            \cup extract_keywords(OrEmpty(external_researcher.organization_focus))
    IN  IF internal_keywords \cap external_keywords # {} THEN "exact"
        ELSE IF internal_keywords \cup external_keywords # {} THEN "union"
        ELSE "full_text"

\* compute_all_matches.extract_clean_keywords with max_words = 2: the single
\* words, then the phrases of two adjacent words
extract_clean_keywords(t) ==
    IF t = <<>> \/ Missing(t) THEN <<>>
    ELSE LET words == Split(compute_all_matches_preprocess_text(t))
             single == SelectSeq(words, LAMBDA w : Len(w) >= 3)
             phrases == [i \in 1..(Len(words) - 1) |->
                           words[i] \o <<" ">> \o words[i + 1]]
         IN  single \o phrases

\* keyword_freq[kw] over a list of keywords
Frequency(list, kw) == Cardinality({i \in 1..Len(list) : list[i] = kw})

\* sorted(all_keywords, key=keyword_freq, reverse=True)[:top_n]: the sort is
\* stable, so keywords of equal frequency keep the unspecified order of
\* list(a_set); the sets the cut can keep
FrequencyHeadSets(all_keywords, list, top_n) ==
    LET freqs == {Frequency(list, kw) : kw \in all_keywords}
        classes == {{kw \in all_keywords : Frequency(list, kw) = f} : f \in freqs}
        ClassFreq(c) == Frequency(list, CHOOSE kw \in c : TRUE)
        by_frequency ==
            CHOOSE s \in [1..Cardinality(classes) -> classes] :
                \A i, j \in 1..Cardinality(classes) :
                    i < j => ClassFreq(s[i]) > ClassFreq(s[j])
    IN  HeadSets(by_frequency, SliceLen(Cardinality(all_keywords), top_n))

RECURSIVE ByFrequency(_, _)
\* a kept set as a list: by falling frequency, keywords of equal frequency
\* alphabetically
ByFrequency(kept, list) ==
    IF kept = {} THEN <<>>
    ELSE LET top == CHOOSE f \in {Frequency(list, kw) : kw \in kept} :
                        \A kw \in kept : Frequency(list, kw) <= f
             first == {kw \in kept : Frequency(list, kw) = top}
         IN  Sorted(first) \o ByFrequency(kept \ first, list)

\* compute_all_matches.find_relevant_keywords: the lists it can return, each
\* written with keywords of equal rank in alphabetical order
compute_all_matches_find_relevant_keywords(internal_text, external_text, top_n) ==
    LET internal_keywords == extract_clean_keywords(internal_text)
        external_keywords == extract_clean_keywords(external_text)
        list == internal_keywords \o external_keywords
        all_keywords == Range(list)
    IN  IF list = <<>> THEN {<<>>}
        ELSE IF Cardinality(all_keywords) > top_n
        THEN {ByFrequency(k, list) :
                k \in FrequencyHeadSets(all_keywords, list, top_n)}
        ELSE {Sorted(k) : k \in HeadSets(<<all_keywords>>,
                                  SliceLen(Cardinality(all_keywords), top_n))}

-----------------------------------------------------------------------------
(* The embedding provider and the similarity ranker.                       *)

\* the relevance floor 0.1
Floor == 10000

\* the cosine similarities the provider's vectors can give here: 0.05, the
\* floor itself, 0.10004 and 1
SimValues == {5000, 10000, 10004, 100000}

\* model.encode is deterministic and normalizes: equal texts get equal
\* vectors, so equal similarities, and a text has similarity 1 with itself
Consistent(query, texts, sims) ==
    /\ \A i, j \in 1..Len(texts) : texts[i] = texts[j] => sims[i] = sims[j]
    /\ \A i \in 1..Len(texts) : texts[i] = query => sims[i] = 100000

Perms(n) == {p \in [1..n -> 1..n] : \A i, j \in 1..n : p[i] = p[j] => i = j}

\* np.argsort(keys) with the default kind: an ascending order of the keys;
\* the default sort is not stable, so equal keys come in any order
argsort(keys) ==
    {p \in Perms(Len(keys)) :
        \A i, j \in 1..Len(keys) : i < j => keys[p[i]] <= keys[p[j]]}

\* a variant of Negated that forgets the minus sign
NotNegated(sims) == sims

\* -similarities
Negated(sims) == [i \in 1..Len(sims) |-> 0 - sims[i]]

Min(a, b) == IF a <= b THEN a ELSE b
Max(a, b) == IF a >= b THEN a ELSE b

\* a variant of SliceTo that keeps one element too many
SliceInclusive(s, n) == SubSeq(s, 1, Min(n + 1, Len(s)))

\* the Python slice s[:n]
SliceTo(s, n) ==
    IF n >= 0 THEN SubSeq(s, 1, Min(n, Len(s)))
    ELSE SubSeq(s, 1, Max(Len(s) + n, 0))

\* round(similarity_score, 4), in units of 0.0001
Round4(sim) == (sim + 5) \div 10

\* round(similarity_score * 100, 2), in units of 0.01 percent
RoundPercentage(sim) == (sim * 100 + 500) \div 1000

\* a variant of Meaningful that lets the floor itself through
MeaningfulFromFloor(sim) == sim >= Floor

\* the test of line 201
Meaningful(sim) == sim > Floor

\* enumerate(top_indices, start=1)
RankOf(position) == position

\* the match_info of one candidate; name, organization and the type-specific
\* attributes are copied from the row that email names
MatchInfo(rank, candidate, sim) ==
    [rank |-> rank, email |-> candidate.email,
     researcher_type |-> candidate.researcher_type,
     similarity_score |-> Round4(sim),
     similarity_percentage |-> RoundPercentage(sim)]

\* the result loop of find_matches, lines 195-230
BuildResults(cands, sims, top) ==
    LET positions == [k \in 1..Len(top) |-> k]
        kept == SelectSeq(positions, LAMBDA k : Meaningful(sims[top[k]]))
    IN  [j \in 1..Len(kept) |->
            MatchInfo(RankOf(kept[j]), researchers[cands[top[kept[j]]]],
                      sims[top[kept[j]]])]

\* a variant of CandidateType that ranks against the profile's own population
SameType(researcher) == researcher.researcher_type

\* the population find_matches ranks against
CandidateType(researcher) ==
    IF researcher.researcher_type = "internal" THEN "external" ELSE "internal"

\* a variant of Blank that only recognises a missing text
BlankIsNone(t) == t = None

\* target_text.strip() is empty
Blank(t) == \A i \in 1..Len(t) : IsSpace(t[i])

\* the result caps asked for: none, the bulk run's 1, a cap between, and the
\* default 5
TopNs == {0, 1, 2, 5}

NoCall == [op |-> "none", target |-> 0, top_n |-> 0, got_model |-> FALSE]

\* a return before any text is built or encoded
ReturnEarly(c, cands, ttext) ==
    /\ call' = c
    /\ pc' = "returned"
    /\ candidates' = cands
    /\ target_text' = ttext
    /\ encoded' = <<>>
    /\ similarities' = <<>>
    /\ top_indices' = <<>>
    /\ matches' = <<>>
    /\ UNCHANGED model_loaded

find_matches(rid, top_n) ==
    LET researcher == researchers[rid]
        cands == filter_by_type(CandidateType(researcher))
        ttext == build_text_for_matching(researcher)
        ctexts == [i \in 1..Len(cands) |->
                      build_text_for_matching(researchers[cands[i]])]
        c == [op |-> "find_matches", target |-> rid, top_n |-> top_n,
              got_model |-> FALSE]
    IN  /\ pc = "engine"
        /\ IF cands = <<>>
           THEN ReturnEarly(c, cands, None)
           ELSE IF Blank(ttext)
           THEN ReturnEarly(c, cands, ttext)
           ELSE \E sims \in {f \in [1..Len(cands) -> SimValues] :
                                Consistent(ttext, ctexts, f)} :
                \E order \in argsort(Negated(sims)) :
                    /\ call' = [c EXCEPT !.got_model = TRUE]
                    /\ pc' = "returned"
                    /\ model_loaded' = TRUE
                    /\ candidates' = cands
                    /\ target_text' = ttext
                    /\ encoded' = <<(<<ttext>>), ctexts>>
                    /\ similarities' = sims
                    /\ top_indices' = SliceTo(order, top_n)
                    /\ matches' = BuildResults(cands, sims, top_indices')
        /\ UNCHANGED researchers
        /\ UNCHANGED norm_vars
        /\ UNCHANGED rest_vars

\* matching.get_all_matches is only ever called with its default top_n
GetAllTopN == 3

\* the similarity matrix is a function of the two texts of a pair
ConsistentMatrix(etexts, itexts, m) ==
    /\ \A e1, e2 \in 1..Len(etexts) : \A i1, i2 \in 1..Len(itexts) :
          (etexts[e1] = etexts[e2] /\ itexts[i1] = itexts[i2])
              => m[e1][i1] = m[e2][i2]
    /\ \A e \in 1..Len(etexts) : \A i \in 1..Len(itexts) :
          etexts[e] = itexts[i] => m[e][i] = 100000

RECURSIVE Flatten(_)
\* the concatenation of a sequence of sequences
Flatten(seqs) ==
    IF seqs = <<>> THEN <<>> ELSE Head(seqs) \o Flatten(Tail(seqs))

\* the match dictionaries of one external researcher, lines 363-383
AllPairsRow(external, internals, sims, top) ==
    LET positions == [k \in 1..Len(top) |-> k]
        kept == SelectSeq(positions, LAMBDA k : Meaningful(sims[top[k]]))
    IN  [j \in 1..Len(kept) |->
            [external_email |-> external.email,
             internal_email |-> researchers[internals[top[kept[j]]]].email,
             match_rank |-> RankOf(kept[j]),
             similarity_score |-> Round4(sims[top[kept[j]]]),
             similarity_percentage |-> RoundPercentage(sims[top[kept[j]]])]]

\* matching.get_all_matches: every external researcher against every
\* internal one
get_all_matches ==
    LET external_researchers == filter_by_type("external")
        internal_researchers == filter_by_type("internal")
        ne == Len(external_researchers)
        ni == Len(internal_researchers)
        external_texts == [e \in 1..ne |->
            build_text_for_matching(researchers[external_researchers[e]])]
        internal_texts == [i \in 1..ni |->
            build_text_for_matching(researchers[internal_researchers[i]])]
        c == [op |-> "get_all_matches", target |-> 0, top_n |-> GetAllTopN,
              got_model |-> FALSE]
    IN  /\ pc = "engine"
        /\ IF external_researchers = <<>> \/ internal_researchers = <<>>
           THEN ReturnEarly(c, internal_researchers, None)
           ELSE \E m \in {f \in [1..ne -> [1..ni -> SimValues]] :
                            ConsistentMatrix(external_texts, internal_texts, f)} :
                \E orders \in {o \in [1..ne -> Perms(ni)] :
                            \A e \in 1..ne : o[e] \in argsort(Negated(m[e]))} :
                    /\ call' = [c EXCEPT !.got_model = TRUE]
                    /\ pc' = "returned"
                    /\ model_loaded' = TRUE
                    /\ candidates' = internal_researchers
                    /\ target_text' = None
                    /\ encoded' = <<external_texts, internal_texts>>
                    /\ similarities' = m
                    /\ top_indices' = [e \in 1..ne |-> SliceTo(orders[e], GetAllTopN)]
                    /\ matches' = Flatten([e \in 1..ne |->
                          AllPairsRow(researchers[external_researchers[e]],
                                      internal_researchers, m[e], top_indices'[e])])
        /\ UNCHANGED researchers
        /\ UNCHANGED norm_vars
        /\ UNCHANGED rest_vars

\* the caller is done with the returned list (the route renders it) and the
\* locals of the call are gone
respond ==
    /\ pc = "returned"
    /\ pc' = "engine"
    /\ call' = NoCall
    /\ target_text' = None
    /\ candidates' = <<>>
    /\ similarities' = <<>>
    /\ top_indices' = <<>>
    /\ matches' = <<>>
    /\ encoded' = <<>>
    /\ UNCHANGED <<researchers, model_loaded>>
    /\ UNCHANGED norm_vars
    /\ UNCHANGED rest_vars

\* preload_model: get_model() at application start
preload_model ==
    /\ pc = "engine"
    /\ ~model_loaded
    /\ model_loaded' = TRUE
    /\ UNCHANGED <<researchers, encoded, call, target_text, candidates,
                   similarities, top_indices, matches, pc>>
    /\ UNCHANGED norm_vars
    /\ UNCHANGED rest_vars

EngineIdle ==
    /\ model_loaded = FALSE
    /\ encoded = <<>>
    /\ call = NoCall
    /\ target_text = None
    /\ candidates = <<>>
    /\ similarities = <<>>
    /\ top_indices = <<>>
    /\ matches = <<>>

NormIdle ==
    /\ text = None
    /\ variant = "none"
    /\ normalized = None
    /\ renormalized = None

KeywordsIdle ==
    /\ kw_module = "none"
    /\ kw_top_n = 0
    /\ keywords = None
    /\ swapped_keywords = None

BulkIdle ==
    /\ match_table = <<>>
    /\ session = <<>>
    /\ idx = 0
    /\ matches_stored = 0
    /\ errors = 0
    /\ provider = <<>>
    /\ escaped = FALSE
    /\ bulk_outcome = "none"

NoResult ==
    [status |-> "none", batch_number |-> 0, processed_this_batch |-> 0,
     total_matches |-> 0, total_researchers |-> 0, remaining |-> 0,
     next_batch |-> 0]

BatchIdle ==
    /\ processed = {}
    /\ result = NoResult
    /\ page = "none"
    /\ in_order = [size |-> 0, upto |-> 0]

\* the browser sessions and the request threads of the model
Sessions == {"s1", "s2"}
Threads == {"t1", "t2"}

NoRequest == [op |-> "none", args |-> <<>>, outcome |-> "none"]

StoreIdle ==
    /\ email_log = <<>>
    /\ request = NoRequest

LoginIdle ==
    /\ admin_sessions = [s \in Sessions |-> [jar |-> FALSE, kept |-> FALSE]]
    /\ renders = [s \in Sessions |-> 0]

ModelIdle ==
    /\ threads = [t \in Threads |->
                     [pc |-> "idle", op |-> "none", local |-> 0, model |-> 0]]
    /\ model_handle = 0
    /\ constructions = 0

WebIdle == StoreIdle /\ LoginIdle /\ ModelIdle

RestIdle == KeywordsIdle /\ BulkIdle /\ BatchIdle /\ WebIdle

Init ==
    /\ researchers \in Tables
    /\ EngineIdle
    /\ text = None
    /\ variant = "none"
    /\ normalized = None
    /\ renormalized = None
    /\ RestIdle
    /\ pc = "engine"

Next ==
    \/ \E rid \in 1..Len(researchers), top_n \in TopNs : find_matches(rid, top_n)
    \/ get_all_matches
    \/ respond
    \/ preload_model

Spec == Init /\ [][Next]_vars

-----------------------------------------------------------------------------
(* Text normalisation on its own: preprocess_text applied once and then to  *)
(* its own result.                                                          *)

\* the pieces the arguments of preprocess_text are made of: a stopword, a
\* word that is kept, upper case, a digit, white space, punctuation
Fragments ==
    {<<"a","n","d">>, <<"d","a","n">>, <<"d","o","n">>, <<"'","t">>,
     <<"A","n">>, <<"7">>, <<" ">>, <<"\t">>, <<".">>}

TextInputs ==
    {None, NaN} \cup
    UNION {{Flatten(f) : f \in [1..n -> Fragments]} : n \in 0..MaxFragments}

Variants == {"matching", "load_data", "compute_all_matches"}

\* the preprocess_text of module v
preprocess_text(v, t) ==
    CASE v = "matching" -> matching_preprocess_text(t)
      [] v = "load_data" -> load_data_preprocess_text(t)
      [] v = "compute_all_matches" -> compute_all_matches_preprocess_text(t)

Normalize(v) ==
    /\ pc = "start"
    /\ pc' = "once"
    /\ variant' = v
    /\ normalized' = preprocess_text(v, text)
    /\ UNCHANGED <<text, renormalized>>
    /\ UNCHANGED engine_vars
    /\ UNCHANGED rest_vars

Renormalize(v) ==
    /\ pc = "once"
    /\ variant = v
    /\ pc' = "twice"
    /\ renormalized' = preprocess_text(v, normalized)
    /\ UNCHANGED <<text, variant, normalized>>
    /\ UNCHANGED engine_vars
    /\ UNCHANGED rest_vars

InitNorm ==
    /\ researchers = <<>>
    /\ EngineIdle
    /\ text \in TextInputs
    /\ variant = "none"
    /\ normalized = None
    /\ renormalized = None
    /\ RestIdle
    /\ pc = "start"

NextNorm ==
    \/ \E v \in Variants : Normalize(v)
    \/ \E v \in Variants : Renormalize(v)

SpecNorm == InitNorm /\ [][NextNorm]_vars

-----------------------------------------------------------------------------
(* The profile text builder on its own, over profiles with missing,         *)
(* empty and filled attributes.                                             *)

AttrValues == {None, <<>>, <<"A","I">>, <<".">>}

Profiles ==
    [id : {1}, email : {Email(1)}, researcher_type : Types,
     primary_areas : AttrValues, experience_summary : AttrValues,
     sectors_interested : AttrValues, expertise_sought : AttrValues,
     organization_focus : AttrValues, challenge_description : AttrValues]

build_profile_text ==
    /\ pc = "start"
    /\ pc' = "built"
    /\ target_text' = build_text_for_matching(researchers[1])
    /\ UNCHANGED <<researchers, model_loaded, encoded, call, candidates,
                   similarities, top_indices, matches>>
    /\ UNCHANGED norm_vars
    /\ UNCHANGED rest_vars

InitBuild ==
    /\ researchers \in {<<r>> : r \in Profiles}
    /\ EngineIdle
    /\ text = None
    /\ variant = "none"
    /\ normalized = None
    /\ renormalized = None
    /\ RestIdle
    /\ pc = "start"

NextBuild == build_profile_text

SpecBuild == InitBuild /\ [][NextBuild]_vars

-----------------------------------------------------------------------------
(* Keyword overlap on its own: find_relevant_keywords applied to a pair of  *)
(* profiles and to the same pair with its sides exchanged.                  *)

\* the phrases of the comma separated attributes: kept, padded and in upper
\* case, too short to be a keyword
KeywordPhrases ==
    {<<"l","a","b">>, <<" ","D","a","t","a">>, <<"B","i","o">>, <<"A","I">>}

KeywordTexts ==
    UNION {{Join(<<",">>, p) : p \in [1..n -> KeywordPhrases]} :
           n \in 0..MaxPhrases}

\* the free text of an internal and of an external profile: both empty, or
\* both with words the full-text fallback keeps and words it passes over
FreeTexts ==
    {<< <<>>, <<>> >>,
     << <<"R","o","b","o","t","s",","," ","t","h","e","i","r",".">>,
        <<"(","r","o","b","o","t","s",")"," ","L","a","s","e","r","s">> >>}

KeywordCaps == {0, 1, 2, 7}

KeywordModules == {"matching", "compute_all_matches"}

InternalProfile(areas, sectors) ==
    [Row(1, "internal", areas) EXCEPT !.sectors_interested = sectors]

ExternalProfile(sought, challenge) ==
    [Row(2, "external", sought) EXCEPT !.challenge_description = challenge]

KeywordPairs ==
    {<<InternalProfile(a, f[1]), ExternalProfile(e, f[2])>> :
        a \in KeywordTexts, e \in KeywordTexts, f \in FreeTexts}

\* the pair with the content of its sides exchanged
Exchanged(pair) ==
    <<[pair[1] EXCEPT !.primary_areas = pair[2].expertise_sought,
                      !.experience_summary = pair[2].organization_focus,
                      !.sectors_interested = pair[2].challenge_description],
      [pair[2] EXCEPT !.expertise_sought = pair[1].primary_areas,
                      !.organization_focus = pair[1].experience_summary,
                      !.challenge_description = pair[1].sectors_interested]>>

\* the text compute_all_matches.py builds of an internal row
InternalText(r) ==
    SpaceJoined(OrEmpty(r.primary_areas), OrEmpty(r.experience_summary),
                OrEmpty(r.sectors_interested))

\* the text compute_all_matches.py builds of an external row
ExternalText(r) ==
    SpaceJoined(OrEmpty(r.expertise_sought), OrEmpty(r.organization_focus),
                OrEmpty(r.challenge_description))

\* the lists the find_relevant_keywords of module m can return for a pair
KeywordLists(m, pair, top_n) ==
    CASE m = "matching" -> find_relevant_keywords(pair[1], pair[2], top_n)
      [] m = "compute_all_matches" ->
            compute_all_matches_find_relevant_keywords(
                InternalText(pair[1]), ExternalText(pair[2]), top_n)

extract_overlap(m) ==
    /\ pc = "start"
    /\ pc' = "overlap"
    /\ kw_module' = m
    /\ keywords' \in KeywordLists(m, researchers, kw_top_n)
    /\ UNCHANGED <<kw_top_n, swapped_keywords>>
    /\ UNCHANGED <<engine_vars, norm_vars, bulk_vars, batch_vars, web_vars>>

\* the branch for shared phrases is in matching.py: its function is the one
\* applied to the exchanged pair
extract_overlap_exchanged ==
    /\ pc = "overlap"
    /\ kw_module = "matching"
    /\ pc' = "exchanged"
    /\ swapped_keywords' \in KeywordLists(kw_module, Exchanged(researchers), kw_top_n)
    /\ UNCHANGED <<kw_module, kw_top_n, keywords>>
    /\ UNCHANGED <<engine_vars, norm_vars, bulk_vars, batch_vars, web_vars>>

InitKeywords ==
    /\ researchers \in KeywordPairs
    /\ EngineIdle
    /\ NormIdle
    /\ kw_module = "none"
    /\ kw_top_n \in KeywordCaps
    /\ keywords = None
    /\ swapped_keywords = None
    /\ BulkIdle
    /\ BatchIdle
    /\ WebIdle
    /\ pc = "start"

NextKeywords ==
    \/ \E m \in KeywordModules : extract_overlap(m)
    \/ extract_overlap_exchanged

SpecKeywords == InitKeywords /\ [][NextKeywords]_vars

-----------------------------------------------------------------------------
(* Bulk matching: compute_and_store_matches of load_data.py over the        *)
(* Researcher and Match tables, one step per internal researcher; the step  *)
(* of the last researcher of a batch holds the batch's commit.              *)

\* batch_size of compute_and_store_matches
batch_size == 5

\* top_n of find_relevant_keywords when find_matches calls it
KeywordTopN == 7

\* the tables of a bulk run: the internal rows share one text, the first of
\* them may have none, and up to two external rows follow
BulkAreas == {<<"A","I">>, <<"m","l",".">>}

ExternalAreas == {<<>>, <<(<<"A","I">>)>>, <<(<<"A","I">>), (<<"m","l",".">>)>>}

BulkTable(n, areas, first, sought) ==
    [i \in 1..(n + Len(sought)) |->
        IF i <= n
        THEN Row(i, "internal", IF i = 1 THEN first ELSE areas)
        ELSE Row(i, "external", sought[i - n])]

BulkTables ==
    {BulkTable(n, areas, IF blank THEN <<>> ELSE areas, sought) :
        n \in 0..MaxInternals, areas \in BulkAreas,
        blank \in BOOLEAN, sought \in ExternalAreas}

\* the similarities the provider gives between the text of an internal row
\* and the external rows: the provider is deterministic, so they are fixed
\* for the run
Providers ==
    LET cands == filter_by_type("external")
        ctexts == [i \in 1..Len(cands) |->
                      build_text_for_matching(researchers[cands[i]])]
        internals == filter_by_type("internal")
        texts == {build_text_for_matching(researchers[internals[i]]) :
                     i \in 1..Len(internals)}
    IN  [t \in {x \in texts : ~Blank(x)} |->
            {f \in [1..Len(cands) -> SimValues] : Consistent(t, ctexts, f)}]

\* Researcher.query.filter_by(email=email).first(), as an id; 0 for None
first_by_email(email) ==
    IF \E i \in 1..Len(researchers) : researchers[i].email = email
    THEN CHOOSE i \in 1..Len(researchers) :
            /\ researchers[i].email = email
            /\ \A j \in 1..(i - 1) : researchers[j].email # email
    ELSE 0

\* the Match rows compute_and_store_matches adds for one find_matches result
NewMatches(internal_id, found) ==
    LET positions == [j \in 1..Len(found) |-> j]
        kept == SelectSeq(positions,
                          LAMBDA j : first_by_email(found[j].email) # 0)
    IN  [k \in 1..Len(kept) |->
            [internal_researcher_id |-> internal_id,
             external_researcher_id |-> first_by_email(found[kept[k]].email),
             similarity_percentage |-> found[kept[k]].similarity_percentage,
             match_rank |-> kept[k]]]

\* a variant of the except branch that stores a row without a score for the
\* researcher whose find_matches raised
PlaceholderOnError(internal_id) ==
    <<[internal_researcher_id |-> internal_id, external_researcher_id |-> 0,
       similarity_percentage |-> 0, match_rank |-> 1]>>

\* the Match rows the except branch adds for the researcher whose
\* find_matches raised: none
AddedOnError(internal_id) == <<>>

\* a variant of Annotate that drops the entries without a shared keyword
AnnotateKeepMatching(found, kws) ==
    LET positions == [j \in 1..Len(found) |-> j]
        kept == SelectSeq(positions, LAMBDA j : kws[j] # <<>>)
    IN  [k \in 1..Len(kept) |->
            found[kept[k]] @@ [matching_keywords |-> kws[kept[k]]]]

\* match_info['matching_keywords'] = ... : each entry of find_matches with
\* its keyword list
Annotate(found, kws) ==
    [j \in 1..Len(found) |-> found[j] @@ [matching_keywords |-> kws[j]]]

\* the keyword lists find_relevant_keywords can return for the entries
KeywordChoices(researcher, found) ==
    {kws \in [1..Len(found) -> UNION {find_relevant_keywords(researcher,
                  researchers[first_by_email(found[j].email)], KeywordTopN) :
                      j \in 1..Len(found)}] :
        \A j \in 1..Len(found) :
            kws[j] \in find_relevant_keywords(researcher,
                          researchers[first_by_email(found[j].email)],
                          KeywordTopN)}

start_matching ==
    LET total_researchers == Len(filter_by_type("internal"))
    IN  /\ pc \in {"start", "done"}
        /\ match_table' = <<>>
        /\ session' = <<>>
        /\ idx' = 0
        /\ matches_stored' = 0
        /\ errors' = 0
        /\ escaped' = FALSE
        /\ pc' = IF total_researchers = 0 THEN "done" ELSE "batch"
        /\ bulk_outcome' = IF total_researchers = 0 THEN "returned" ELSE "running"
        /\ UNCHANGED <<engine_vars, provider>>
        /\ UNCHANGED <<norm_vars, keyword_vars, batch_vars, web_vars>>

\* the rest of the loop body after find_matches: the rows are added, the
\* batch is committed after its last researcher, the function returns after
\* the last batch
store_and_go_on(rows, raised) ==
    LET total_researchers == Len(filter_by_type("internal"))
        last_of_batch == (idx + 1) % batch_size = 0 \/ idx + 1 = total_researchers
    IN  /\ IF last_of_batch
           THEN match_table' = match_table \o session \o rows /\ session' = <<>>
           ELSE session' = session \o rows /\ UNCHANGED match_table
        /\ matches_stored' = matches_stored + Len(rows)
        /\ errors' = errors + (IF raised THEN 1 ELSE 0)
        /\ escaped' = raised
        /\ idx' = idx + 1
        /\ pc' = IF idx + 1 = total_researchers THEN "done" ELSE "batch"
        /\ bulk_outcome' =
              IF idx + 1 = total_researchers THEN "returned" ELSE "running"

process_researcher ==
    LET internal_researchers == filter_by_type("internal")
        internal == internal_researchers[idx + 1]
        researcher == researchers[internal]
        cands == filter_by_type(CandidateType(researcher))
        ttext == build_text_for_matching(researcher)
        ctexts == [i \in 1..Len(cands) |->
                      build_text_for_matching(researchers[cands[i]])]
        c == [op |-> "find_matches", target |-> internal, top_n |-> 1,
              got_model |-> FALSE]
    IN  /\ pc = "batch"
        /\ idx < Len(internal_researchers)
        /\ \/ /\ cands = <<>> \/ Blank(ttext)
              /\ call' = c
              /\ candidates' = cands
              /\ target_text' = IF cands = <<>> THEN None ELSE ttext
              /\ encoded' = <<>>
              /\ similarities' = <<>>
              /\ top_indices' = <<>>
              /\ matches' = <<>>
              /\ UNCHANGED model_loaded
              /\ store_and_go_on(<<>>, FALSE)
           \/ /\ cands # <<>> /\ ~Blank(ttext)
              /\ \E order \in argsort(Negated(provider[ttext])) :
                   LET top == SliceTo(order, 1)
                       found == BuildResults(cands, provider[ttext], top)
                   IN  \E kws \in KeywordChoices(researcher, found) :
                         /\ call' = [c EXCEPT !.got_model = TRUE]
                         /\ model_loaded' = TRUE
                         /\ candidates' = cands
                         /\ target_text' = ttext
                         /\ encoded' = <<(<<ttext>>), ctexts>>
                         /\ similarities' = provider[ttext]
                         /\ top_indices' = top
                         /\ matches' = Annotate(found, kws)
                         /\ store_and_go_on(NewMatches(internal, matches'), FALSE)
           \/ /\ cands # <<>> /\ ~Blank(ttext)
              /\ call' = [c EXCEPT !.got_model = TRUE]
              /\ model_loaded' = TRUE
              /\ candidates' = cands
              /\ target_text' = ttext
              /\ encoded' = <<(<<ttext>>)>>
              /\ similarities' = <<>>
              /\ top_indices' = <<>>
              /\ matches' = <<>>
              /\ store_and_go_on(AddedOnError(internal), TRUE)
        /\ UNCHANGED <<researchers, provider>>
        /\ UNCHANGED <<norm_vars, keyword_vars, batch_vars, web_vars>>

InitBulk ==
    /\ researchers \in BulkTables
    /\ provider \in [DOMAIN Providers -> UNION {Providers[t] : t \in DOMAIN Providers}]
    /\ \A t \in DOMAIN Providers : provider[t] \in Providers[t]
    /\ EngineIdle
    /\ NormIdle
    /\ KeywordsIdle
    /\ match_table = <<>>
    /\ session = <<>>
    /\ idx = 0
    /\ matches_stored = 0
    /\ errors = 0
    /\ escaped = FALSE
    /\ bulk_outcome = "none"
    /\ BatchIdle
    /\ WebIdle
    /\ pc = "start"

NextBulk ==
    \/ start_matching
    \/ process_researcher

SpecBulk == InitBulk /\ [][NextBulk]_vars

\* execution stops while a batch is being processed (a crash, a timeout of
\* the worker): what the session holds and has not committed is lost, what
\* was committed stays, and nothing of the function is running any more
interrupt ==
    /\ pc = "batch"
    /\ session' = <<>>
    /\ pc' = "start"
    /\ bulk_outcome' = "interrupted"
    /\ UNCHANGED <<engine_vars, match_table, idx, matches_stored, errors,
                   provider, escaped>>
    /\ UNCHANGED <<norm_vars, keyword_vars, batch_vars, web_vars>>

NextResume ==
    \/ NextBulk
    \/ interrupt

\* bulk matching with interruptions, each followed by a new start
SpecResume == InitBulk /\ [][NextResume]_vars

-----------------------------------------------------------------------------
(* The batch step and its page: /admin/compute-matches of app.py calls      *)
(* compute_and_store_matches_incremental(batch_number, batch_size), which   *)
(* load_data.py does not define.  The step is modelled as the batch         *)
(* controller run_batch of the specification describes it (section 4.6);    *)
(* the page is modelled from app.py.                                        *)

\* batch_size of the call in admin_compute_matches
page_batch_size == 10

\* the batch sizes of direct calls of the step
BatchSizes == {3, page_batch_size}

\* the numbers of internal rows: every one up to the bound, and the 23 of
\* the specification's scenario
ProfileCounts == (0..MaxProfiles) \cup {23}

\* n internal rows with a text, the row at position blank without one, then
\* the external rows
BatchTable(n, blank, sought) ==
    [i \in 1..(n + Len(sought)) |->
        IF i <= n
        THEN Row(i, "internal", IF i = blank THEN <<>> ELSE <<"m","l",".">>)
        ELSE Row(i, "external", sought[i - n])]

BatchTables ==
    {BatchTable(n, blank, sought) :
        n \in ProfileCounts, blank \in 0..MaxProfiles,
        sought \in {<<>>, <<(<<"A","I">>)>>}}

\* a variant of BatchSlice that stops one profile early
BatchSliceShort(profiles, batch_number, bsize) ==
    SubSeq(profiles, (batch_number - 1) * bsize + 1,
           Min(batch_number * bsize - 1, Len(profiles)))

\* the source profiles of a batch: the slice
\* [(batch_number - 1) * batch_size, batch_number * batch_size)
BatchSlice(profiles, batch_number, bsize) ==
    SubSeq(profiles, (batch_number - 1) * bsize + 1,
           Min(batch_number * bsize, Len(profiles)))

\* the profiles of a batch that are not yet matched: the others are skipped
Unmatched(batch, done) == SelectSeq(batch, LAMBDA rid : rid \notin done)

\* find_matches reaches the provider for a profile that has candidates and
\* a text
NeedsProvider(rid) ==
    /\ filter_by_type("external") # <<>>
    /\ ~Blank(build_text_for_matching(researchers[rid]))

\* the orders argsort can give for the similarities of each text: argsort
\* is a function of its argument, so equal texts get equal orders in a step
RankingOrders ==
    {o \in [DOMAIN provider ->
                UNION {argsort(Negated(provider[t])) : t \in DOMAIN provider}] :
        \A t \in DOMAIN provider : o[t] \in argsort(Negated(provider[t]))}

\* the single-profile query path with the bulk run's top_n = 1
QueryPath(rid, orders) ==
    LET cands == filter_by_type("external")
        ttext == build_text_for_matching(researchers[rid])
    IN  IF cands = <<>> \/ Blank(ttext) THEN <<>>
        ELSE BuildResults(cands, provider[ttext], SliceTo(orders[ttext], 1))

RECURSIVE PersistAll(_, _)
\* the Match rows of the profiles of todo, in their order
PersistAll(todo, orders) ==
    IF todo = <<>> THEN <<>>
    ELSE NewMatches(todo[1], QueryPath(todo[1], orders))
         \o PersistAll(Tail(todo), orders)

\* the progress the step reports
Progress(batch_number, todo, done, total) ==
    [status |-> IF Cardinality(done) = total THEN "complete" ELSE "in_progress",
     batch_number |-> batch_number,
     processed_this_batch |-> Len(todo),
     total_matches |-> Cardinality(done),
     total_researchers |-> total,
     remaining |-> total - Cardinality(done),
     next_batch |-> batch_number + 1]

\* run_batch(batch_number, batch_size): the profiles of the slice that are
\* not matched go through the query path, their Match rows are persisted and
\* committed, and they are marked as matched
step(batch_number, bsize) ==
    LET profiles == filter_by_type("internal")
        todo == Unmatched(BatchSlice(profiles, batch_number, bsize), processed)
    IN  \E orders \in RankingOrders :
            /\ match_table' = match_table \o PersistAll(todo, orders)
            /\ processed' = processed \cup Range(todo)
            /\ result' = Progress(batch_number, todo, processed', Len(profiles))
            /\ model_loaded' =
                  (model_loaded \/ \E rid \in Range(todo) : NeedsProvider(rid))
            /\ escaped' = FALSE

\* the provider raises for a profile of the batch: the exception leaves the
\* step before its commit, and what earlier steps committed stays
step_raises(batch_number, bsize) ==
    LET profiles == filter_by_type("internal")
        todo == Unmatched(BatchSlice(profiles, batch_number, bsize), processed)
    IN  /\ \E rid \in Range(todo) : NeedsProvider(rid)
        /\ model_loaded' = TRUE
        /\ escaped' = TRUE
        /\ UNCHANGED <<match_table, processed, result>>

\* a direct call of the step; the calls of a run are made with one batch
\* size and with batch_number 1, 2, ... in order, up to one call past the
\* last batch
run_batch(batch_number, bsize) ==
    /\ pc = "batches"
    /\ in_order.upto = batch_number - 1
    /\ in_order.upto = 0 \/ in_order.size = bsize
    /\ (batch_number - 1) * bsize <= Len(filter_by_type("internal"))
    /\ \/ /\ step(batch_number, bsize)
          /\ in_order' = [size |-> bsize, upto |-> batch_number]
       \/ /\ step_raises(batch_number, bsize)
          /\ UNCHANGED in_order
    /\ UNCHANGED <<researchers, encoded, call, target_text, candidates,
                   similarities, top_indices, matches>>
    /\ UNCHANGED <<session, idx, matches_stored, errors, provider,
                   bulk_outcome>>
    /\ UNCHANGED <<norm_vars, keyword_vars, web_vars, page, pc>>

\* a variant of the page's test that takes a batch without work for the end
PageWhenIdle(r) ==
    IF r.processed_this_batch = 0 THEN "complete" ELSE "progress"

\* the page of admin_compute_matches for a result of the step
PageOf(r) == IF r.status = "complete" THEN "complete" ELSE "progress"

\* batch_number = (current_matches // 10) + 1
BatchNumberOf(current_matches) == (current_matches \div 10) + 1

\* GET /admin/compute-matches
admin_compute_matches ==
    LET internal_count == Len(filter_by_type("internal"))
        external_count == Len(filter_by_type("external"))
    IN  /\ pc = "batches"
        /\ IF internal_count = 0 \/ external_count = 0
           THEN /\ page' = "no_data"
                /\ UNCHANGED <<match_table, processed, result, model_loaded,
                               escaped>>
           ELSE \/ /\ step(BatchNumberOf(Len(match_table)), page_batch_size)
                   /\ page' = PageOf(result')
                \/ /\ step_raises(BatchNumberOf(Len(match_table)),
                                   page_batch_size)
                   /\ page' = "error"
        /\ in_order' = [size |-> 0, upto |-> 0 - 1]
        /\ UNCHANGED <<researchers, encoded, call, target_text, candidates,
                       similarities, top_indices, matches>>
        /\ UNCHANGED <<session, idx, matches_stored, errors, provider,
                       bulk_outcome>>
        /\ UNCHANGED <<norm_vars, keyword_vars, web_vars, pc>>

InitBatch ==
    /\ researchers \in BatchTables
    /\ provider \in [DOMAIN Providers -> UNION {Providers[t] : t \in DOMAIN Providers}]
    /\ \A t \in DOMAIN Providers : provider[t] \in Providers[t]
    /\ EngineIdle
    /\ NormIdle
    /\ KeywordsIdle
    /\ match_table = <<>>
    /\ session = <<>>
    /\ idx = 0
    /\ matches_stored = 0
    /\ errors = 0
    /\ escaped = FALSE
    /\ bulk_outcome = "none"
    /\ BatchIdle
    /\ WebIdle
    /\ pc = "batches"

NextBatch ==
    \/ \E batch_number \in 1..(MaxProfiles + 24), bsize \in BatchSizes :
          run_batch(batch_number, bsize)
    \/ admin_compute_matches

SpecBatch == InitBatch /\ [][NextBatch]_vars

-----------------------------------------------------------------------------
(* The stored tables behind the routes of app.py and the loaders of        *)
(* load_data.py: Researcher (researchers), Match (match_table) and EmailLog *)
(* (email_log).  Every profile of this part carries the same text, so the  *)
(* provider gives the similarity 1 for every pair.                         *)

\* the most rows registration adds to the Researcher table
MaxStored == 3

\* the most rows of a spreadsheet
MaxSheetRows == 2

\* the most rows of the EmailLog table
MaxLogs == 2

\* the sequences over S of at most n elements
SeqsUpTo(S, n) == UNION {[1..k -> S] : k \in 0..n}

\* a Researcher row with the email given
StoredRow(i, email, type) ==
    [Row(i, type, <<"A","I">>) EXCEPT !.email = email]

\* clean_text of load_data.py
clean_text(value) == IF Missing(value) THEN <<>> ELSE Strip(value)

\* email = request.form.get('email', '').strip().lower()
FormEmail(field) == Lower(Strip(field))

\* email = clean_text(row.get('email', '')) of load_all_data
LoadEmail(cell) == clean_text(cell)

\* email = str(row['email']).strip().lower() of safe-check-researchers
SafeCheckEmail(cell) == Lower(Strip(Str(cell)))

\* Researcher.query.filter_by(email=email).first() over a table, as a test
Registered(table, email) == \E i \in 1..Len(table) : table[i].email = email

RECURSIVE AddMissing(_, _, _, _)
\* the loop over the rows of one spreadsheet: a row whose email is not in
\* the table yet is added; skip_empty is the loaders' test of an empty email
AddMissing(table, emails, type, skip_empty) ==
    IF emails = <<>> THEN table
    ELSE IF (skip_empty /\ Head(emails) = <<>>) \/ Registered(table, Head(emails))
    THEN AddMissing(table, Tail(emails), type, skip_empty)
    ELSE AddMissing(Append(table, StoredRow(Len(table) + 1, Head(emails), type)),
                    Tail(emails), type, skip_empty)

\* the Researcher table load_all_data leaves for the two spreadsheets
Loaded(internal_sheet, external_sheet) ==
    LET internal_emails == [i \in 1..Len(internal_sheet) |->
                               LoadEmail(internal_sheet[i])]
        external_emails == [i \in 1..Len(external_sheet) |->
                               LoadEmail(external_sheet[i])]
    IN  AddMissing(AddMissing(<<>>, internal_emails, "internal", TRUE),
                   external_emails, "external", TRUE)

\* a variant of Cleared that keeps the rows of a table
Kept(table) == table

\* Match.query.delete(), EmailLog.query.delete()
Cleared(table) == <<>>

\* the variables the table operations leave alone
store_frame == <<model_loaded, encoded, call, target_text, candidates,
                 similarities, top_indices, matches, norm_vars, keyword_vars,
                 session, idx, matches_stored, errors, provider, escaped,
                 bulk_outcome, batch_vars, login_vars, model_vars, pc>>

\* POST /register/internal and /register/external
register(type, field) ==
    LET email == FormEmail(field)
    IN  /\ pc = "store"
        /\ Len(researchers) < MaxStored
        /\ IF email = <<>>
           THEN /\ request' = [op |-> "register", args |-> <<field>>,
                               outcome |-> "required"]
                /\ UNCHANGED researchers
           ELSE IF Registered(researchers, email)
           THEN /\ request' = [op |-> "register", args |-> <<field>>,
                               outcome |-> "already_registered"]
                /\ UNCHANGED researchers
           ELSE /\ request' = [op |-> "register", args |-> <<field>>,
                               outcome |-> "registered"]
                /\ researchers' = Append(researchers,
                       StoredRow(Len(researchers) + 1, email, type))
        /\ UNCHANGED <<match_table, email_log>>
        /\ UNCHANGED store_frame

\* load_all_data(): the three tables are cleared, then the spreadsheets are
\* loaded; a spreadsheet that is not there loads nothing
load_all_data(internal_sheet, external_sheet) ==
    /\ pc = "store"
    /\ email_log' = Cleared(email_log)
    /\ match_table' = Cleared(match_table)
    /\ researchers' = Loaded(internal_sheet, external_sheet)
    /\ request' = [op |-> "load_all_data", args |-> <<>>, outcome |-> "loaded"]
    /\ UNCHANGED store_frame

\* GET /admin/force-reload: TRUNCATE of the three tables, then load_all_data;
\* a database without TRUNCATE (SQLite, the default) raises and the tables
\* stay as they are
admin_force_reload(internal_sheet, external_sheet) ==
    /\ pc = "store"
    /\ \/ /\ email_log' = <<>>
          /\ match_table' = <<>>
          /\ researchers' = Loaded(internal_sheet, external_sheet)
          /\ request' = [op |-> "force_reload", args |-> <<>>,
                         outcome |-> "loaded"]
       \/ /\ request' = [op |-> "force_reload", args |-> <<>>,
                         outcome |-> "error"]
          /\ UNCHANGED <<researchers, match_table, email_log>>
    /\ UNCHANGED store_frame

\* GET /admin/safe-check-researchers
admin_safe_check_researchers(internal_sheet, external_sheet) ==
    LET internal_emails == [i \in 1..Len(internal_sheet) |->
                               SafeCheckEmail(internal_sheet[i])]
        external_emails == [i \in 1..Len(external_sheet) |->
                               SafeCheckEmail(external_sheet[i])]
    IN  /\ pc = "store"
        /\ researchers' =
              AddMissing(AddMissing(researchers, internal_emails, "internal", FALSE),
                         external_emails, "external", FALSE)
        /\ request' = [op |-> "safe_check", args |-> <<>>, outcome |-> "checked"]
        /\ UNCHANGED <<match_table, email_log>>
        /\ UNCHANGED store_frame

\* email = request.form.get('email', '').strip() of search
SearchEmail(field) == Strip(field)

\* POST /search
search(field) ==
    LET email == SearchEmail(field)
    IN  /\ pc = "store"
        /\ request' = [op |-> "search", args |-> <<field>>,
                       outcome |-> IF email = <<>> THEN "index"
                                   ELSE IF Registered(researchers, email)
                                   THEN "found" ELSE "not_found"]
        /\ UNCHANGED <<researchers, match_table, email_log>>
        /\ UNCHANGED store_frame

\* GET /matches/<email>, up to the lookup of the profile
matches_page(email) ==
    /\ pc = "store"
    /\ request' = [op |-> "matches", args |-> <<email>>,
                   outcome |-> IF Registered(researchers, email)
                               THEN "found" ELSE "not_found"]
    /\ UNCHANGED <<researchers, match_table, email_log>>
    /\ UNCHANGED store_frame

\* the cells of the Email Address column
AddressCells == {<<"a","@","x">>, <<"A","@","x">>, <<"b","@","x">>}

\* what is typed into a form or an address bar
AddressFields == AddressCells \cup {<<" ","b","@","x">>, <<>>}

\* the spreadsheets of internal researchers, and the shorter ones of
\* external researchers
AddressSheets == SeqsUpTo(AddressCells, MaxSheetRows)

ExternalSheets == {sheet \in AddressSheets : Len(sheet) <= 1}

InitStore ==
    /\ researchers = <<>>
    /\ EngineIdle
    /\ NormIdle
    /\ RestIdle
    /\ pc = "store"

NextProfiles ==
    \/ \E type \in Types, field \in AddressFields : register(type, field)
    \/ \E internal_sheet \in AddressSheets, external_sheet \in ExternalSheets :
          load_all_data(internal_sheet, external_sheet)
    \/ \E internal_sheet \in AddressSheets, external_sheet \in ExternalSheets :
          admin_force_reload(internal_sheet, external_sheet)
    \/ \E internal_sheet \in AddressSheets, external_sheet \in ExternalSheets :
          admin_safe_check_researchers(internal_sheet, external_sheet)
    \/ \E field \in AddressFields : search(field)
    \/ \E field \in AddressFields : matches_page(field)

\* the profile table under registration, the loaders and the lookups
SpecProfiles == InitStore /\ [][NextProfiles]_vars

-----------------------------------------------------------------------------
(* The Match and EmailLog tables under the admin routes.                   *)

\* the similarities of a profile to the candidates: every text of this part
\* is the same, so each is 1
SameTextSimilarities(cands) == [i \in 1..Len(cands) |-> 100000]

\* what find_matches(internal, top_n=1) can do for each internal researcher:
\* raise in the provider, which leaves no order (the empty one here), or
\* rank the candidates in one of argsort's orders
BulkOutcomes(internals, cands) ==
    [Range(internals) ->
        {<<>>} \cup argsort(Negated(SameTextSimilarities(cands)))]

RECURSIVE AllMatches(_, _, _)
\* the Match rows of a whole run of compute_and_store_matches: a researcher
\* whose find_matches raised is passed over
AllMatches(internals, cands, outcomes) ==
    IF internals = <<>> THEN <<>>
    ELSE LET internal == Head(internals)
             found == IF cands = <<>> \/ outcomes[internal] = <<>> THEN <<>>
                      ELSE BuildResults(cands, SameTextSimilarities(cands),
                                        SliceTo(outcomes[internal], 1))
         IN  NewMatches(internal, found)
             \o AllMatches(Tail(internals), cands, outcomes)

\* compute_and_store_matches(), from its first line to its last
compute_and_store_matches ==
    LET internals == filter_by_type("internal")
        cands == filter_by_type("external")
    IN  /\ pc = "store"
        /\ \E outcomes \in BulkOutcomes(internals, cands) :
              match_table' = AllMatches(internals, cands, outcomes)
        /\ request' = [op |-> "compute_matches", args |-> <<>>,
                       outcome |-> "returned"]
        /\ UNCHANGED <<researchers, email_log>>
        /\ UNCHANGED store_frame

\* match_rank=idx + 1: idx is the index label of the spreadsheet row, from 0
Top20Rank(sheet, k) == (k - 1) + 1

\* the rows the loop of load-top20 adds: one for each spreadsheet row whose
\* two emails name stored profiles
Top20Rows(sheet) ==
    LET positions == [k \in 1..Len(sheet) |-> k]
        kept == SelectSeq(positions, LAMBDA k :
                    /\ first_by_email(sheet[k].internal_email) # 0
                    /\ first_by_email(sheet[k].external_email) # 0)
    IN  [j \in 1..Len(kept) |->
            [internal_researcher_id |->
                 first_by_email(sheet[kept[j]].internal_email),
             external_researcher_id |->
                 first_by_email(sheet[kept[j]].external_email),
             similarity_percentage |-> sheet[kept[j]].similarity_percentage,
             match_rank |-> Top20Rank(sheet, kept[j])]]

\* a variant of Replaced that adds the new rows to the old ones
AddedTo(table, rows) == table \o rows

\* Match.query.delete(), then the new rows
Replaced(table, rows) == rows

\* GET /admin/load-top20; file is "missing" when top20_matches.xlsx is not
\* there.  A similarity_percentage cell that float() rejects (numeric is
\* FALSE) raises after the delete was committed.
admin_load_top20(file, sheet) ==
    /\ pc = "store"
    /\ IF file = "missing"
       THEN /\ request' = [op |-> "load_top20", args |-> <<sheet>>,
                           outcome |-> "not_found"]
            /\ UNCHANGED match_table
       ELSE IF \E k \in 1..Len(sheet) :
                   /\ first_by_email(sheet[k].internal_email) # 0
                   /\ first_by_email(sheet[k].external_email) # 0
                   /\ ~sheet[k].numeric
       THEN /\ request' = [op |-> "load_top20", args |-> <<sheet>>,
                           outcome |-> "error"]
            /\ match_table' = Replaced(match_table, <<>>)
       ELSE /\ request' = [op |-> "load_top20", args |-> <<sheet>>,
                           outcome |-> "loaded"]
            /\ match_table' = Replaced(match_table, Top20Rows(sheet))
    /\ UNCHANGED <<researchers, email_log>>
    /\ UNCHANGED store_frame

\* a variant of AlreadyLogged that never finds the pair
NeverLogged(internal_id, external_id) == FALSE

\* EmailLog.query.filter_by(internal_researcher_id=..., external_researcher_id=...)
\* .first() is not None
AlreadyLogged(internal_id, external_id) ==
    \E i \in 1..Len(email_log) :
        /\ email_log[i].internal_researcher_id = internal_id
        /\ email_log[i].external_researcher_id = external_id

\* POST /api/track-email
track_email(internal_email, external_email) ==
    LET internal == first_by_email(internal_email)
        external == first_by_email(external_email)
    IN  /\ pc = "store"
        /\ IF internal = 0 \/ external = 0
           THEN /\ request' = [op |-> "track_email",
                               args |-> <<internal_email, external_email>>,
                               outcome |-> "not_found"]
                /\ UNCHANGED email_log
           ELSE /\ request' = [op |-> "track_email",
                               args |-> <<internal_email, external_email>>,
                               outcome |-> "success"]
                /\ IF AlreadyLogged(internal, external)
                   THEN UNCHANGED email_log
                   ELSE /\ Len(email_log) < MaxLogs
                        /\ email_log' = Append(email_log,
                               [internal_researcher_id |-> internal,
                                external_researcher_id |-> external])
        /\ UNCHANGED <<researchers, match_table>>
        /\ UNCHANGED store_frame

\* GET /admin/reset-email-logs
admin_reset_email_logs ==
    /\ pc = "store"
    /\ email_log' = <<>>
    /\ request' = [op |-> "reset_email_logs", args |-> <<>>,
                   outcome |-> "reset"]
    /\ UNCHANGED <<researchers, match_table>>
    /\ UNCHANGED store_frame

\* the addresses of this part, all lowercase, and its spreadsheets
PlainCells == {<<"a","@","x">>, <<"b","@","x">>}

PlainSheets == {<<>>, <<(<<"a","@","x">>)>>,
                <<(<<"a","@","x">>), (<<"b","@","x">>)>>}

PlainExternalSheets == {<<>>, <<(<<"b","@","x">>)>>}

\* a row of top20_matches.xlsx
Top20Row(internal_email, external_email, numeric) ==
    [internal_email |-> internal_email, external_email |-> external_email,
     similarity_percentage |-> 9000, numeric |-> numeric]

\* top20_matches.xlsx: empty, one pair, two pairs of two internal
\* researchers, one pair twice, a pair with an address that is never
\* stored, and a pair with a cell that is no number
Top20Sheets ==
    LET a == <<"a","@","x">>
        b == <<"b","@","x">>
        c == <<"c","@","x">>
    IN  {<<>>,
         <<Top20Row(a, b, TRUE)>>,
         <<Top20Row(a, b, TRUE), Top20Row(b, a, TRUE)>>,
         <<Top20Row(a, b, TRUE), Top20Row(a, b, TRUE)>>,
         <<Top20Row(a, c, TRUE), Top20Row(a, b, TRUE)>>,
         <<Top20Row(a, b, FALSE)>>}

NextStore ==
    \/ \E type \in Types, field \in PlainCells : register(type, field)
    \/ \E internal_sheet \in PlainSheets, external_sheet \in PlainExternalSheets :
          load_all_data(internal_sheet, external_sheet)
    \/ \E internal_sheet \in PlainSheets, external_sheet \in PlainExternalSheets :
          admin_force_reload(internal_sheet, external_sheet)
    \/ \E internal_sheet \in PlainSheets, external_sheet \in PlainExternalSheets :
          admin_safe_check_researchers(internal_sheet, external_sheet)
    \/ compute_and_store_matches
    \/ \E file \in {"missing", "there"}, sheet \in Top20Sheets :
          admin_load_top20(file, sheet)
    \/ \E internal_email, external_email \in PlainCells :
          track_email(internal_email, external_email)
    \/ admin_reset_email_logs

\* the three tables under registration and the admin operations
SpecStore == InitStore /\ [][NextStore]_vars

-----------------------------------------------------------------------------
(***************************************************************************)
(* matching.get_model under request threads.  The function takes no lock,  *)
(* so each thread goes through it in the steps between which the           *)
(* interpreter can switch threads: the test of _model, the construction    *)
(* of the SentenceTransformer, the assignment to _model and the return.    *)
(***************************************************************************)

MaxConstructions == 3

\* the functions of matching.py that call get_model
ModelCallers == {"get_model", "preload_model", "find_matches"}

model_frame == <<engine_vars, norm_vars, keyword_vars, bulk_vars, batch_vars,
                 store_vars, login_vars, pc>>

\* a thread calls get_model, preload_model (which calls get_model at once)
\* or find_matches; find_matches returns [] before its get_model call when
\* there is no researcher or no candidate
enter(t, op, reaches_get_model) ==
    /\ pc = "model"
    /\ threads[t].pc = "idle"
    /\ threads' = [threads EXCEPT ![t] =
           [pc |-> IF op = "find_matches" /\ ~reaches_get_model
                   THEN "idle" ELSE "test",
            op |-> op, local |-> 0, model |-> 0]]
    /\ UNCHANGED <<model_handle, constructions, model_frame>>

\* if _model is None:
test_model(t) ==
    /\ pc = "model"
    /\ threads[t].pc = "test"
    /\ threads' = [threads EXCEPT ![t].pc =
           IF model_handle = 0 THEN "construct" ELSE "return"]
    /\ UNCHANGED <<model_handle, constructions, model_frame>>

\* SentenceTransformer("all-MiniLM-L6-v2", device='cpu') gives a new object
construct(t) ==
    /\ pc = "model"
    /\ threads[t].pc = "construct"
    /\ constructions < MaxConstructions
    /\ constructions' = constructions + 1
    /\ threads' = [threads EXCEPT ![t].pc = "assign",
                                  ![t].local = constructions + 1]
    /\ UNCHANGED <<model_handle, model_frame>>

\* the constructor raises: get_model and find_matches pass the exception on,
\* preload_model prints it; the caller gets no handle and _model is as before
construct_raises(t) ==
    /\ pc = "model"
    /\ threads[t].pc = "construct"
    /\ threads' = [threads EXCEPT ![t].pc = "idle"]
    /\ UNCHANGED <<model_handle, constructions, model_frame>>

\* _model = <the new object>
assign(t) ==
    /\ pc = "model"
    /\ threads[t].pc = "assign"
    /\ model_handle' = threads[t].local
    /\ threads' = [threads EXCEPT ![t].pc = "return"]
    /\ UNCHANGED <<constructions, model_frame>>

\* return _model
return_model(t) ==
    /\ pc = "model"
    /\ threads[t].pc = "return"
    /\ threads' = [threads EXCEPT ![t].pc = "idle", ![t].model = model_handle]
    /\ UNCHANGED <<model_handle, constructions, model_frame>>

InitModel ==
    /\ researchers = <<>>
    /\ EngineIdle
    /\ NormIdle
    /\ RestIdle
    /\ pc = "model"

NextModel ==
    \/ \E t \in Threads, op \in ModelCallers, reaches \in BOOLEAN :
           enter(t, op, reaches)
    \/ \E t \in Threads : test_model(t)
    \/ \E t \in Threads : construct(t)
    \/ \E t \in Threads : construct_raises(t)
    \/ \E t \in Threads : assign(t)
    \/ \E t \in Threads : return_model(t)

SpecModel == InitModel /\ [][NextModel]_vars

-----------------------------------------------------------------------------
(***************************************************************************)
(* matching.find_matches_for_researcher: find_matches for the profile an   *)
(* email names.                                                            *)
(***************************************************************************)

\* an address no row of Tables has
UnknownEmail == <<"z", "@", "x">>

\* the result loop of find_matches_for_researcher, lines 281-319: it is the
\* loop of find_matches, but its keywords step reads the name `researcher`,
\* which this function does not bind (its profile is `target`), so the
\* first candidate that passes the test of line 286 ends the call with a
\* NameError
ByEmailRaises(sims, top) ==
    \E k \in 1..Len(top) : Meaningful(sims[top[k]])

\* a return of find_matches_for_researcher before any text is encoded
ReturnEarlyByEmail(c, r, cands, ttext) ==
    /\ ReturnEarly(c, cands, ttext)
    /\ request' = r

find_matches_for_researcher(email, top_n) ==
    LET rid == first_by_email(email)
        target == researchers[rid]
        cands == filter_by_type(CandidateType(target))
        ttext == build_text_for_matching(target)
        ctexts == [i \in 1..Len(cands) |->
                      build_text_for_matching(researchers[cands[i]])]
        c == [op |-> "find_matches_for_researcher", target |-> rid,
              top_n |-> top_n, got_model |-> FALSE]
        r == [op |-> "find_matches_for_researcher",
              args |-> <<email, top_n>>, outcome |-> "returned"]
    IN  /\ pc = "engine"
        /\ IF rid = 0
           THEN ReturnEarlyByEmail(c, r, <<>>, None)
           ELSE IF cands = <<>>
           THEN ReturnEarlyByEmail(c, r, cands, None)
           ELSE IF Blank(ttext)
           THEN ReturnEarlyByEmail(c, r, cands, ttext)
           ELSE \E sims \in {f \in [1..Len(cands) -> SimValues] :
                                Consistent(ttext, ctexts, f)} :
                \E order \in argsort(Negated(sims)) :
                    /\ call' = [c EXCEPT !.got_model = TRUE]
                    /\ pc' = "returned"
                    /\ model_loaded' = TRUE
                    /\ candidates' = cands
                    /\ target_text' = ttext
                    /\ encoded' = <<(<<ttext>>), ctexts>>
                    /\ similarities' = sims
                    /\ top_indices' = SliceTo(order, top_n)
                    /\ matches' = <<>>
                    /\ request' = [r EXCEPT !.outcome =
                           IF ByEmailRaises(sims, top_indices')
                           THEN "NameError" ELSE "returned"]
        /\ UNCHANGED researchers
        /\ UNCHANGED norm_vars
        /\ UNCHANGED <<keyword_vars, bulk_vars, batch_vars, email_log,
                       login_vars, model_vars>>

\* the caller is done with the outcome of the call
respond_by_email ==
    /\ pc = "returned"
    /\ pc' = "engine"
    /\ call' = NoCall
    /\ target_text' = None
    /\ candidates' = <<>>
    /\ similarities' = <<>>
    /\ top_indices' = <<>>
    /\ matches' = <<>>
    /\ encoded' = <<>>
    /\ request' = NoRequest
    /\ UNCHANGED <<researchers, model_loaded>>
    /\ UNCHANGED norm_vars
    /\ UNCHANGED <<keyword_vars, bulk_vars, batch_vars, email_log,
                   login_vars, model_vars>>

NextByEmail ==
    \/ \E email \in {Email(i) : i \in 1..Len(researchers)} \cup {UnknownEmail},
          top_n \in TopNs : find_matches_for_researcher(email, top_n)
    \/ respond_by_email

SpecByEmail == Init /\ [][NextByEmail]_vars

-----------------------------------------------------------------------------
(***************************************************************************)
(* The admin login and the /match-list page.  `session` is Flask's         *)
(* session object, which app.py uses as it comes: its content is the       *)
(* signed cookie the request carries, and what a handler changes in it is  *)
(* sent back in the cookie of the response.  The server keeps nothing.     *)
(***************************************************************************)

MaxRenders == 2

\* AUTHORIZED_EMAILS, one address standing for the three
AUTHORIZED_EMAILS == {<<"a", "@", "h">>}

ADMIN_PASSWORD == "Enzo@1939"

\* the addresses and passwords typed into the login form
LoginEmails ==
    {<<"a", "@", "h">>, <<" ", "A", "@", "h">>, <<"b", "@", "x">>}
Passwords == {ADMIN_PASSWORD, "enzo@1939"}

login_frame == <<engine_vars, norm_vars, keyword_vars, bulk_vars, batch_vars,
                 email_log, model_vars, pc>>

\* POST /admin/login
admin_login(s, email_field, password) ==
    LET email == Lower(Strip(email_field))
        ok == email \in AUTHORIZED_EMAILS /\ password = ADMIN_PASSWORD
    IN  /\ pc = "login"
        /\ admin_sessions' =
               IF ok THEN [admin_sessions EXCEPT ![s].jar = TRUE]
               ELSE admin_sessions
        /\ renders' = IF ok THEN [renders EXCEPT ![s] = 0] ELSE renders
        /\ request' = [op |-> "admin_login", args |-> <<s, email_field>>,
                       outcome |-> IF ok THEN "redirect_match_list"
                                   ELSE "invalid"]
        /\ UNCHANGED login_frame

\* GET /admin/logout
admin_logout(s) ==
    /\ pc = "login"
    /\ admin_sessions' = [admin_sessions EXCEPT ![s].jar = FALSE]
    /\ request' = [op |-> "admin_logout", args |-> <<s>>,
                   outcome |-> "redirect_home"]
    /\ UNCHANGED <<renders, login_frame>>

\* the client keeps a copy of the session cookie its browser holds
keep_cookie(s) ==
    /\ pc = "login"
    /\ admin_sessions[s].kept # admin_sessions[s].jar
    /\ admin_sessions' =
           [admin_sessions EXCEPT ![s].kept = admin_sessions[s].jar]
    /\ request' = [op |-> "keep_cookie", args |-> <<s>>, outcome |-> "none"]
    /\ UNCHANGED <<renders, login_frame>>

\* session.get('admin_logged_in') of the request
LoggedIn(flag) == flag

\* GET /match-list with the browser's cookie or with the copy kept; the
\* body of the try can raise, and the handler then answers 500 with the
\* session as it was
match_list(s, sent, raises) ==
    LET flag == IF sent = "jar" THEN admin_sessions[s].jar
                ELSE admin_sessions[s].kept
    IN  /\ pc = "login"
        /\ renders[s] < MaxRenders
        /\ IF ~LoggedIn(flag)
           THEN /\ request' = [op |-> "match_list", args |-> <<s, sent>>,
                               outcome |-> "redirect_login"]
                /\ UNCHANGED <<admin_sessions, renders>>
           ELSE IF raises
           THEN /\ request' = [op |-> "match_list", args |-> <<s, sent>>,
                               outcome |-> "error"]
                /\ UNCHANGED <<admin_sessions, renders>>
           ELSE /\ request' = [op |-> "match_list", args |-> <<s, sent>>,
                               outcome |-> "rendered"]
                /\ renders' = [renders EXCEPT ![s] = renders[s] + 1]
                \* session.pop('admin_logged_in', None): the response
                \* carries the cookie without the flag
                /\ admin_sessions' = [admin_sessions EXCEPT ![s].jar = FALSE]
        /\ UNCHANGED login_frame

InitLogin ==
    /\ researchers = <<>>
    /\ EngineIdle
    /\ NormIdle
    /\ RestIdle
    /\ pc = "login"

NextLogin ==
    \/ \E s \in Sessions, email \in LoginEmails, password \in Passwords :
           admin_login(s, email, password)
    \/ \E s \in Sessions : admin_logout(s)
    \/ \E s \in Sessions : keep_cookie(s)
    \/ \E s \in Sessions, sent \in {"jar", "kept"}, raises \in BOOLEAN :
           match_list(s, sent, raises)

SpecLogin == InitLogin /\ [][NextLogin]_vars

-----------------------------------------------------------------------------
(* Properties of find_matches.                                             *)

FoundMatches == pc = "returned" /\ call.op = "find_matches"

Target == researchers[call.target]

\* the position in the candidate list of the researcher an entry names
PosOf(entry) ==
    CHOOSE i \in 1..Len(candidates) : researchers[candidates[i]].email = entry.email

\* the unrounded similarity of a returned entry
SimOf(entry) == similarities[PosOf(entry)]

Prefix(s, n) == SubSeq(s, 1, Min(n, Len(s)))

AboveFloor == {i \in 1..Len(candidates) : similarities[i] > Floor}

\* the orders of the candidates by descending similarity
DescendingOrders ==
    {p \in Perms(Len(candidates)) :
        \A i, j \in 1..Len(candidates) :
            i < j => similarities[p[i]] >= similarities[p[j]]}

Opposite(type) == IF type = "external" THEN "internal" ELSE "external"

\* C1 as stated: for a profile with non-empty composite text find_matches
\* returns at most top_n entries, each with a similarity_score strictly
\* above the floor 0.1 and at most 1, the scores non-increasing by rank.
C1_ScoresStrictlyAboveFloor ==
    (FoundMatches /\ build_text_for_matching(Target) # <<>>) =>
        /\ Len(matches) <= call.top_n
        /\ \A k \in 1..Len(matches) :
              /\ matches[k].similarity_score * 10 > Floor
              /\ matches[k].similarity_score <= 10000
        /\ \A j, k \in 1..Len(matches) :
              j < k => matches[j].similarity_score >= matches[k].similarity_score

\* C1 amended: at most top_n entries; the unrounded similarity of every
\* entry is strictly above 0.1, its reported similarity_score (rounded to 4
\* decimals) is at least 0.1 and at most 1; the scores are non-increasing
\* by rank.
C1_ScoresBoundedAndOrdered ==
    (FoundMatches /\ build_text_for_matching(Target) # <<>>) =>
        /\ Len(matches) <= call.top_n
        /\ \A k \in 1..Len(matches) :
              /\ SimOf(matches[k]) > Floor
              /\ matches[k].similarity_score * 10 >= Floor
              /\ matches[k].similarity_score <= 10000
        /\ \A j, k \in 1..Len(matches) :
              j < k => matches[j].similarity_score >= matches[k].similarity_score

\* C1 witness: a full list of two entries, the second of similarity 0.10004
\* reported as 0.1
C1_Witness ==
    /\ FoundMatches
    /\ call.top_n = 2
    /\ Len(matches) = 2
    /\ SimOf(matches[2]) > Floor
    /\ matches[2].similarity_score * 10 = Floor
    /\ matches[1].similarity_score > matches[2].similarity_score

\* C2: find_matches returns exactly the candidates above the floor, in
\* descending similarity, cut to top_n: min(top_n, number above the floor)
\* entries, none at or below the floor, the same list as dropping before
\* truncating; one candidate above the floor and one at 0.05 with top_n = 5
\* give one match of rank 1.
C2_FilterThenTruncate ==
    (FoundMatches /\ build_text_for_matching(Target) # <<>>
                  /\ candidates # <<>>) =>
        /\ Len(matches) = Min(call.top_n, Cardinality(AboveFloor))
        /\ \A k \in 1..Len(matches) : SimOf(matches[k]) > Floor
        /\ \E order \in DescendingOrders :
              /\ top_indices = Prefix(order, call.top_n)
              /\ [k \in 1..Len(matches) |-> PosOf(matches[k])]
                    = Prefix(SelectSeq(order, LAMBDA i : i \in AboveFloor),
                             call.top_n)
        /\ \A a, b \in 1..Len(candidates) :
              (/\ Len(candidates) = 2
               /\ call.top_n = 5
               /\ similarities[a] > Floor
               /\ similarities[b] = 5000) =>
                  /\ Len(matches) = 1
                  /\ matches[1].rank = 1
                  /\ matches[1].email = researchers[candidates[a]].email

\* C2 witness: the scenario of two candidates, the first at 0.05, top_n = 5
C2_Witness ==
    /\ FoundMatches
    /\ call.top_n = 5
    /\ similarities = <<5000, 100000>>
    /\ Len(matches) = 1
    /\ matches[1].email = researchers[candidates[2]].email

\* C3: the rank fields of the returned list are 1, 2, ..., k in list order.
C3_RanksAreOneToK ==
    FoundMatches => \A k \in 1..Len(matches) : matches[k].rank = k

\* C3 witness: the floor dropped a candidate that the cut had kept
C3_Witness ==
    /\ FoundMatches
    /\ Len(matches) >= 1
    /\ Len(top_indices) > Len(matches)

\* C4: candidates of equal similarity are returned in the order of the
\* candidate list.
C4_TiesKeepCandidateOrder ==
    FoundMatches =>
        \A j, k \in 1..Len(matches) :
            (j < k /\ SimOf(matches[j]) = SimOf(matches[k]))
                => PosOf(matches[j]) < PosOf(matches[k])

\* C5: for a profile with empty composite text find_matches returns the
\* empty list, does not fetch the model and encodes nothing.
C5_EmptyTextNoProviderCall ==
    (FoundMatches /\ build_text_for_matching(Target) = <<>>) =>
        /\ matches = <<>>
        /\ encoded = <<>>
        /\ ~call.got_model

\* C5 witness: an empty-text profile with candidates, the model not loaded
C5_Witness ==
    /\ FoundMatches
    /\ build_text_for_matching(Target) = <<>>
    /\ candidates # <<>>
    /\ ~model_loaded

\* C6: no text handed to model.encode, by find_matches or by
\* get_all_matches, is the empty string.
C6_NoEmptyStringEncoded ==
    pc = "returned" =>
        \A b \in 1..Len(encoded) : \A i \in 1..Len(encoded[b]) :
            encoded[b][i] # <<>>

\* C7: every entry returned for P is a stored profile of the population
\* opposite to P's, never P itself.
C7_OppositePopulationOnly ==
    FoundMatches =>
        \A k \in 1..Len(matches) :
            /\ matches[k].researcher_type = Opposite(Target.researcher_type)
            /\ matches[k].email # Target.email
            /\ \E i \in 1..Len(researchers) :
                  /\ researchers[i].email = matches[k].email
                  /\ researchers[i].researcher_type
                        = Opposite(Target.researcher_type)

\* C7 witness: an external profile with a match, beside another external
\* profile
C7_Witness ==
    /\ FoundMatches
    /\ Target.researcher_type = "external"
    /\ Len(matches) >= 1
    /\ \E i \in 1..Len(researchers) :
          i # call.target /\ researchers[i].researcher_type = "external"

-----------------------------------------------------------------------------
(* Properties of the text normaliser and of the profile text builder.      *)

\* C8: normalising normalised text changes nothing, for the light variants
\* and for the stopword-filtering variant, missing and empty input included.
C8_NormalizeIsIdempotent ==
    pc = "twice" => renormalized = normalized

\* C8 witness: a text that the stopword-filtering variant changed into two
\* words, normalised again
C8_Witness ==
    /\ pc = "twice"
    /\ variant = "compute_all_matches"
    /\ normalized # text
    /\ " " \in Range(normalized)

\* the maximal runs of non-space characters of s, as pairs of positions
TokenSpans(s) ==
    {sp \in (1..Len(s)) \X (1..Len(s)) :
        /\ sp[1] <= sp[2]
        /\ \A i \in sp[1]..sp[2] : s[i] # " "
        /\ (sp[1] = 1 \/ s[sp[1] - 1] = " ")
        /\ (sp[2] = Len(s) \/ s[sp[2] + 1] = " ")}

\* C9: the keyword variant returns the empty string for missing or empty
\* input; its output holds only a-z, 0-9 and single separating spaces, with
\* no leading or trailing space, no stopword and no token under 3 characters.
C9_KeywordOutputIsClean ==
    (variant = "compute_all_matches" /\ pc \in {"once", "twice"}) =>
        /\ (text \in {None, NaN, <<>>} => normalized = <<>>)
        /\ \A i \in 1..Len(normalized) :
              IsAlnum(normalized[i]) \/ normalized[i] = " "
        /\ normalized # <<>> =>
              normalized[1] # " " /\ normalized[Len(normalized)] # " "
        /\ \A i \in 1..(Len(normalized) - 1) :
              ~(normalized[i] = " " /\ normalized[i + 1] = " ")
        /\ \A sp \in TokenSpans(normalized) :
              /\ SubSeq(normalized, sp[1], sp[2]) \notin STOPWORDS
              /\ sp[2] - sp[1] + 1 >= 3

\* C9 witness: "and dan" loses its stopword
C9_Witness ==
    /\ variant = "compute_all_matches"
    /\ pc = "once"
    /\ text = <<"a","n","d"," ","d","a","n">>
    /\ normalized = <<"d","a","n">>

\* the three attributes build_text_for_matching reads are missing or empty
OwnAttributesEmpty(r) ==
    IF r.researcher_type = "internal"
    THEN {r.primary_areas, r.experience_summary, r.sectors_interested}
            \subseteq {None, <<>>}
    ELSE {r.expertise_sought, r.organization_focus, r.challenge_description}
            \subseteq {None, <<>>}

\* C10: build_text_for_matching never raises on missing attributes and
\* returns the empty string when the three attributes of the profile's
\* population are all missing or empty.
C10_BuilderEmptyOnEmptyProfile ==
    pc = "built" =>
        /\ target_text # TypeError
        /\ OwnAttributesEmpty(researchers[1]) => target_text = <<>>

\* C10 witness: an external profile with missing and empty attributes of its
\* own and a filled attribute of the other population
C10_Witness ==
    /\ pc = "built"
    /\ researchers[1].researcher_type = "external"
    /\ researchers[1].expertise_sought = None
    /\ researchers[1].organization_focus = <<>>
    /\ researchers[1].challenge_description = None
    /\ researchers[1].primary_areas = <<"A","I">>
    /\ target_text = <<>>

-----------------------------------------------------------------------------
(* Properties of the keyword overlap.                                      *)

\* the phrases find_relevant_keywords of the applied module draws from the
\* internal profile
InternalPhrases ==
    IF kw_module = "matching"
    THEN extract_keywords(OrEmpty(researchers[1].primary_areas))
    ELSE Range(extract_clean_keywords(InternalText(researchers[1])))

\* the phrases it draws from the external profile
ExternalPhrases ==
    IF kw_module = "matching"
    THEN extract_keywords(OrEmpty(researchers[2].expertise_sought))
         \cup extract_keywords(OrEmpty(researchers[2].organization_focus))
    ELSE Range(extract_clean_keywords(ExternalText(researchers[2])))

SharedPhrases == InternalPhrases \cap ExternalPhrases

Overlapped == pc \in {"overlap", "exchanged"}

NoDuplicates(s) == \A i, j \in 1..Len(s) : s[i] = s[j] => i = j

\* C11: when the two profiles share a phrase, the overlap of the pair and
\* the overlap of the pair with its sides exchanged, under the same cap, hold
\* the same set of phrases.
C11_OverlapIsSymmetric ==
    (pc = "exchanged" /\ SharedPhrases # {}) =>
        Range(keywords) = Range(swapped_keywords)

\* C12: the returned keyword list has at most top_n entries and no phrase
\* twice, whichever branch produced it, also when the shared phrases alone
\* are more than top_n.
C12_KeywordsCappedAndDistinct ==
    /\ Overlapped =>
        /\ Len(keywords) <= kw_top_n
        /\ NoDuplicates(keywords)
    /\ pc = "exchanged" =>
        /\ Len(swapped_keywords) <= kw_top_n
        /\ NoDuplicates(swapped_keywords)

\* C12 witness: matching.find_relevant_keywords returned a full list for a
\* pair that shares more phrases than the cap
C12_Witness ==
    /\ pc = "overlap"
    /\ kw_module = "matching"
    /\ KeywordPath(researchers[1], researchers[2]) = "exact"
    /\ kw_top_n = 1
    /\ Cardinality(SharedPhrases) = 2
    /\ Len(keywords) = 1

\* C13: when the two profiles share at least one phrase and at most top_n
\* phrases, every shared phrase is in the returned list, and the phrases of
\* one side only take no more than the places the shared ones leave.
C13_SharedPhrasesAllKept ==
    (Overlapped /\ SharedPhrases # {} /\ Cardinality(SharedPhrases) <= kw_top_n) =>
        /\ SharedPhrases \subseteq Range(keywords)
        /\ Cardinality(Range(keywords) \ SharedPhrases)
              <= kw_top_n - Cardinality(SharedPhrases)

-----------------------------------------------------------------------------
(* Properties of bulk matching.                                            *)

IsPrefix(s, t) == Len(s) <= Len(t) /\ SubSeq(t, 1, Len(s)) = s

\* the Match rows stored so far, committed or waiting for the commit
StoredRows == match_table \o session

RowsOf(internal_id, rows) ==
    {i \in 1..Len(rows) : rows[i].internal_researcher_id = internal_id}

\* the largest similarity the provider gives the text of a researcher
BestSimilarity(rid) ==
    LET sims == provider[build_text_for_matching(researchers[rid])]
    IN  CHOOSE b \in Range(sims) : \A x \in Range(sims) : x <= b

\* the external rows the provider gives that similarity
BestCandidates(rid) ==
    LET sims == provider[build_text_for_matching(researchers[rid])]
        cands == filter_by_type("external")
    IN  {cands[i] : i \in {j \in 1..Len(cands) : sims[j] = BestSimilarity(rid)}}

AllInternalsMatched ==
    /\ filter_by_type("internal") # <<>>
    /\ \A rid \in Range(filter_by_type("internal")) :
          RowsOf(rid, match_table) # {}

\* C15: bulk matching started again when every internal researcher already
\* has a committed Match row leaves the Match table as it is: no row is
\* deleted, replaced or added.
C15_SecondRunLeavesMatches ==
    [][(pc = "done" /\ AllInternalsMatched) => match_table' = match_table]_vars

\* C19: when the provider fails for a researcher of the bulk run, that step
\* stores no Match row for the researcher and every row committed before it is
\* still in the table after it.
C19_FailedProfileStoresNothing ==
    [][(pc = "batch" /\ idx' = idx + 1 /\ escaped') =>
          /\ RowsOf(call'.target, match_table' \o session') = {}
          /\ IsPrefix(match_table, match_table')]_vars

\* C19 witness: the provider failed for the first researcher of the second
\* batch and the first batch's committed rows are in the table
C19_Witness ==
    /\ escaped
    /\ idx = batch_size + 1
    /\ call.target = filter_by_type("internal")[batch_size + 1]
    /\ RowsOf(call.target, StoredRows) = {}
    /\ \E rid \in 1..batch_size : RowsOf(rid, match_table) # {}

\* C20: a provider failure ends bulk matching as a failure: the run does not
\* go on, or return normally, after a find_matches call that raised.
C20_ProviderFailureEndsTheRun ==
    escaped => bulk_outcome = "raised"

-----------------------------------------------------------------------------
(* Properties of the batch step and of /admin/compute-matches.             *)

SourceProfiles == filter_by_type("internal")

\* the first n source profiles
FirstProfiles(n) ==
    {SourceProfiles[i] : i \in 1..Min(n, Len(SourceProfiles))}

\* C16: after the calls batch_number = 1, ..., k of the batch step with batch
\* size B over N source profiles, the profiles processed are the first
\* min(k*B, N), call k processed those of them that the calls before it had
\* not, no profile got more than the one Match row of a single pass, the
\* remaining count reported is max(0, N - k*B), and the call reports
\* complete exactly when k*B >= N: call ceil(N/B) does and no call before it.
C16_BatchesInOrderProcessAllOnce ==
    LET N == Len(SourceProfiles)
        B == in_order.size
        k == in_order.upto
    IN  k >= 1 =>
          /\ processed = FirstProfiles(k * B)
          /\ result.processed_this_batch = Min(k * B, N) - Min((k - 1) * B, N)
          /\ \A rid \in processed : Cardinality(RowsOf(rid, match_table)) <= 1
          /\ result.remaining = Max(0, N - k * B)
          /\ result.status = "complete" <=> k * B >= N

\* C16 witness: the third call of 23 profiles in batches of 10, which reports
\* complete with nothing remaining and a Match row for every profile
C16_Witness ==
    /\ Len(SourceProfiles) = 23
    /\ in_order = [size |-> 10, upto |-> 3]
    /\ result.processed_this_batch = 3
    /\ result.remaining = 0
    /\ result.status = "complete"
    /\ Len(match_table) = 23

\* C17: the batch step and the page report complete only when every source
\* profile has been processed, with a Match row or with none.
C17_CompleteOnlyWhenAllProcessed ==
    (result.status = "complete" \/ page = "complete") =>
        Range(SourceProfiles) \subseteq processed

\* C17 witness: the page reports complete, and one of the processed profiles
\* has no text and no Match row while another has a row
C17_Witness ==
    /\ page = "complete"
    /\ \E rid \in processed :
          /\ Blank(build_text_for_matching(researchers[rid]))
          /\ RowsOf(rid, match_table) = {}
    /\ \E rid \in processed : RowsOf(rid, match_table) # {}

\* C18: every request to /admin/compute-matches that answers with the
\* progress page has processed at least one more profile.  A request that
\* answers "in progress" and leaves the tables as it found them is followed
\* by requests that do the same, so complete is never reported.
C18_EveryRequestAdvances ==
    [][page' = "progress" => processed' # processed]_vars

-----------------------------------------------------------------------------
(* Properties of interrupted bulk matching.                                *)

\* C21: when bulk matching is started again after an interruption, the Match
\* rows that were committed before the interruption are still stored: the
\* new start does not delete them.
C21_ResumeKeepsCommittedBatches ==
    [][(bulk_outcome = "interrupted" /\ bulk_outcome' # "interrupted") =>
          IsPrefix(match_table, match_table')]_vars

-----------------------------------------------------------------------------
(* Properties of the stored tables.                                        *)

\* C23: every stored contact address is lowercase, and no two stored
\* profiles have the same address when letter case is ignored.
C23_AddressesLowercaseAndUnique ==
    /\ \A i \in 1..Len(researchers) :
          researchers[i].email = Lower(researchers[i].email)
    /\ \A i, j \in 1..Len(researchers) :
          Lower(researchers[i].email) = Lower(researchers[j].email) => i = j

\* C24: a lookup by contact address finds a profile whenever the address
\* supplied equals a stored address up to letter case and surrounding
\* whitespace.
C24_LookupIgnoresCaseAndSpace ==
    (/\ request.op \in {"search", "matches"}
     /\ \E i \in 1..Len(researchers) :
           Lower(Strip(researchers[i].email)) = Lower(Strip(request.args[1])))
        => request.outcome = "found"

\* the ranks of the Match rows of a source profile
RanksOf(rid) == {match_table[i].match_rank : i \in RowsOf(rid, match_table)}

\* C22: the match_rank values of the Match rows of any one source profile
\* are distinct positive integers starting at 1.
C22_RanksStartAtOne ==
    \A i \in 1..Len(match_table) :
        LET rid == match_table[i].internal_researcher_id
        IN  RanksOf(rid) = 1..Cardinality(RowsOf(rid, match_table))

\* the (internal, external) pairs of the EmailLog rows
LoggedPair(i) ==
    <<email_log[i].internal_researcher_id, email_log[i].external_researcher_id>>

NoDuplicateLogs ==
    \A i, j \in 1..Len(email_log) : LoggedPair(i) = LoggedPair(j) => i = j

\* a step of /api/track-email: no other operation answers as it does
TrackEmailStep == request'.op = "track_email"

\* C28: there is at most one EmailLog row per (internal, external) pair; a
\* track-email call for a pair that is logged adds nothing and returns
\* success, and a call naming an email without a stored profile adds nothing.
C28_OneLogPerPair ==
    /\ []NoDuplicateLogs
    /\ [][TrackEmailStep =>
            LET internal == first_by_email(request'.args[1])
                external == first_by_email(request'.args[2])
            IN  /\ (internal = 0 \/ external = 0) => email_log' = email_log
                /\ (\E i \in 1..Len(email_log) :
                        LoggedPair(i) = <<internal, external>>)
                      => /\ internal # 0 /\ external # 0
                         /\ email_log' = email_log
                         /\ request'.outcome = "success"]_vars

\* C28 witness: a pair was logged, another pair was logged after it, and the
\* last call, for the first pair again, returned success
C28_Witness ==
    /\ request.op = "track_email"
    /\ request.outcome = "success"
    /\ Len(email_log) = 2
    /\ LoggedPair(1) = <<first_by_email(request.args[1]),
                         first_by_email(request.args[2])>>
    /\ LoggedPair(2) # LoggedPair(1)

\* the spreadsheet rows whose two emails name stored profiles
Resolving(sheet) ==
    {k \in 1..Len(sheet) :
        /\ Registered(researchers, sheet[k].internal_email)
        /\ Registered(researchers, sheet[k].external_email)}

\* the j-th smallest element of a set of numbers
NthOf(S, j) == CHOOSE k \in S : Cardinality({x \in S : x < k}) = j - 1

\* C29: a successful /admin/load-top20 leaves in the Match table exactly one
\* row for each spreadsheet row whose two emails name stored profiles, in
\* the order of the spreadsheet, and nothing else; EmailLog and the profiles
\* are as before.
C29_LoadTop20ReplacesMatches ==
    [][(request'.op = "load_top20" /\ request'.outcome = "loaded") =>
          LET sheet == request'.args[1]
          IN  /\ Len(match_table') = Cardinality(Resolving(sheet))
              /\ \A j \in 1..Len(match_table') :
                    LET row == sheet[NthOf(Resolving(sheet), j)]
                        stored == match_table'[j]
                    IN  /\ researchers[stored.internal_researcher_id].email
                              = row.internal_email
                        /\ researchers[stored.external_researcher_id].email
                              = row.external_email
                        /\ stored.similarity_percentage
                              = row.similarity_percentage
              /\ email_log' = email_log
              /\ researchers' = researchers]_vars

\* C29 witness: a spreadsheet of two rows was loaded, one of its rows named
\* an address that is not stored and the other gave the only Match row,
\* while EmailLog holds a row
C29_Witness ==
    /\ request.op = "load_top20"
    /\ request.outcome = "loaded"
    /\ Len(request.args[1]) = 2
    /\ Len(match_table) = 1
    /\ email_log # <<>>

\* C30: each Match row and each EmailLog row references two profiles that
\* are in the profile table.
C30_ReferencesExist ==
    /\ \A i \in 1..Len(match_table) :
          /\ match_table[i].internal_researcher_id \in 1..Len(researchers)
          /\ match_table[i].external_researcher_id \in 1..Len(researchers)
    /\ \A i \in 1..Len(email_log) :
          /\ email_log[i].internal_researcher_id \in 1..Len(researchers)
          /\ email_log[i].external_researcher_id \in 1..Len(researchers)

\* C30 witness: two profiles are stored, and Match rows and EmailLog rows
\* that reference them
C30_Witness ==
    /\ match_table # <<>>
    /\ email_log # <<>>
    /\ Len(researchers) = 2
    /\ request.op = "track_email"

-----------------------------------------------------------------------------
(***************************************************************************)
(* Properties of the embedding-model handle.                               *)
(***************************************************************************)

\* C25: over any calls of get_model, preload_model and find_matches, two
\* request threads inside get_model at once included, the model object is
\* constructed at most once and every caller that got a handle got the same
\* one, the one _model holds
C25_HandleCreatedOnce ==
    /\ constructions <= 1
    /\ \A t \in Threads :
           threads[t].model # 0 => threads[t].model = model_handle
    /\ \A t, u \in Threads :
           (threads[t].model # 0 /\ threads[u].model # 0)
               => threads[t].model = threads[u].model

-----------------------------------------------------------------------------
(***************************************************************************)
(* Properties of find_matches_for_researcher.                              *)
(***************************************************************************)

\* C26: find_matches_for_researcher(email, top_n) returns the empty list
\* when no profile has the email, and otherwise returns, without raising,
\* the list find_matches gives for that profile, the same similarities and
\* the same order
C26_ByEmailAsFindMatches ==
    (pc = "returned" /\ call.op = "find_matches_for_researcher")
        => /\ request.outcome = "returned"
           /\ matches =
                 IF call.target = 0 \/ candidates = <<>> \/ Blank(target_text)
                 THEN <<>>
                 ELSE BuildResults(candidates, similarities, top_indices)

-----------------------------------------------------------------------------
(***************************************************************************)
(* Properties of the admin login.                                          *)
(***************************************************************************)

\* C27: the match list is rendered only for a session whose admin login
\* succeeded, and the rendering clears the login flag, so that in every
\* sequence of requests a client has got at most one rendering of the match
\* list since its last successful login
C27_OneRenderPerLogin == \A s \in Sessions : renders[s] <= 1

====
